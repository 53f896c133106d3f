-------------------------- MODULE DecodeGraphProofs --------------------------
(***************************************************************************)
(* A replay of the recorded decode step does what the eager body would, on *)
(* memory the engine owns: for every number of layers, length of a session *)
(* and batch, and every set of matrix kinds, widths and switches for which *)
(* nothing of a captured step outgrows the buffer (RoomForGraph).          *)
(*                                                                         *)
(* The argument runs host and device side by side.  Ready(h, ...) says of  *)
(* the host, after some of a pass has been enqueued, what a device makes   *)
(* of the kernels so far: all is right, and the K/V rows are R.  Each      *)
(* operator of the host that appends kernels keeps it; the layers are a    *)
(* fold, and so are the kernels (FoldTheorems).  Faithful(ks) is what is   *)
(* left of it for a list of kernels without the host that made it: at any  *)
(* position, over any rows, it computes a token.                           *)
(***************************************************************************)
EXTENDS DecodeGraph, WellFoundedInduction, TLAPS

Sizes == {0} \cup {Q81(b) : b \in {config.hidden, config.inter}}
             \cup {Q8K(b) : b \in {config.hidden, config.inter}}
Ops == {"put", "get", "store", "attend"}
Whats == {"norm", "kv", "attn", "ffn", "gate", "head"}
Kernel == [op : Ops, layer : 0 .. NumLayers, what : Whats, fits : BOOLEAN,
           at : Int, gen : Nat, scr : Nat]
Buffer == [gen : Nat, bytes : Nat]
Host == [q8k : Buffer, kernels : Seq(Kernel), pre : BOOLEAN, capturing : BOOLEAN,
         at : Int, scr : Nat]
AllRows == [Layers -> [Positions -> BOOLEAN]]
Machine == [rows : AllRows, held : {<<>>} \cup (Nat \X (0 .. NumLayers) \X Whats), good : BOOLEAN]
Context == [n : Nat \ {0}, pos : Nat, dev : Int, gens : SUBSET Nat, scr : Nat]

-----------------------------------------------------------------------------
(* The folds.                                                              *)

Largest(S) == Max(S)
Running == INSTANCE FoldTheorems WITH Op <- Step, Pick <- Largest
Layering == INSTANCE FoldTheorems WITH Op <- Layer, Pick <- Largest

\* Nat is well ordered.
LEMMA Least == \A B \in SUBSET Nat : B # {} => \E n \in B : \A m \in B : n <= m
  <1>1. SUFFICES ASSUME NEW B \in SUBSET Nat, B # {}
                 PROVE  \E n \in B : \A m \in B : n <= m
    OBVIOUS
  <1>2. PICK n \in B : \A m \in B : ~ (<<m, n>> \in OpToRel(<, Nat))
    BY <1>1, NatLessThanWellFounded, WFMin
  <1>3. \A m \in B : ~ (m < n)
    BY <1>2 DEF OpToRel
  <1>4. \A m \in B : n <= m
    BY <1>3
  <1> QED
    BY <1>4

LEMMA LargestPicked ==
    /\ Running!WellOrdered /\ Running!PicksLargest
    /\ Layering!WellOrdered /\ Layering!PicksLargest
  BY Least DEF Running!WellOrdered, Running!PicksLargest, Layering!WellOrdered,
      Layering!PicksLargest, Max, Largest

LEMMA ExecuteIsFold ==
    ASSUME NEW m, NEW ks, NEW c
    PROVE  Execute(m, ks, c) = Running!Fold(c, m, ks, DOMAIN ks)
  BY DEF Execute, FoldLeft, MapThenFoldSet, Max, Running!Fold, Running!MapThenFoldSet, Largest

LEMMA ExecuteNone ==
    ASSUME NEW m, NEW c
    PROVE  Execute(m, <<>>, c) = m
  BY ExecuteIsFold, LargestPicked, Running!FoldEmpty

LEMMA ExecuteAppend ==
    ASSUME NEW m, NEW ks \in Seq(Kernel), NEW k, NEW c
    PROVE  Execute(m, Append(ks, k), c) = Step(Execute(m, ks, c), k, c)
  <1>1. Running!Fold(c, m, Append(ks, k), 1 .. (Len(ks) + 1))
          = Step(Running!Fold(c, m, ks, 1 .. Len(ks)), k, c)
    BY LargestPicked, Running!FoldAppend
  <1>2. DOMAIN ks = 1 .. Len(ks) /\ DOMAIN Append(ks, k) = 1 .. (Len(ks) + 1)
    OBVIOUS
  <1> QED
    BY <1>1, <1>2, ExecuteIsFold

-----------------------------------------------------------------------------
(* Host and device, kernel by kernel.                                      *)

\* The rows R after layer l has stored those of the pass.
Extend(R, l, c) ==
    [j \in Layers |-> IF j = l THEN [p \in Positions |-> p \in c.pos .. c.pos + c.n - 1 \/ R[j][p]]
                      ELSE R[j]]

\* The kernels that the host has enqueued name memory of the pass, and a device
\* that starts at m has done all right and ends with the rows R.  The buffer
\* has grown from q0, but not where the pass is captured or replayed.
Ready(h, c, m, q0, R) ==
    /\ h \in Host /\ c \in Context /\ m \in Machine /\ q0 \in Buffer /\ R \in AllRows
    /\ c.pos + c.n <= MaxPos
    /\ h.scr = c.scr /\ (IF h.at = Device THEN c.dev ELSE h.at) = c.pos
    /\ h.q8k.gen \in c.gens /\ h.q8k.bytes \in Sizes
    /\ q0.bytes <= h.q8k.bytes
    /\ Enough(config, q0.bytes) => h.q8k = q0
    /\ h.capturing \/ c.gens # Nat => Enough(config, q0.bytes)
    /\ \A i \in 1 .. Len(h.kernels) :
          h.kernels[i].at = h.at /\ Live(h.kernels[i], c) /\ h.kernels[i].fits
    /\ Execute(m, h.kernels, c) \in Machine
    /\ Execute(m, h.kernels, c).good /\ Execute(m, h.kernels, c).rows = R
Held(h, c, m) == Execute(m, h.kernels, c).held

LEMMA StepType ==
    ASSUME NEW m \in Machine, NEW k \in Kernel, NEW c \in Context
    PROVE  Step(m, k, c) \in Machine
  <1>1. m.rows \in AllRows /\ m.good \in BOOLEAN
        /\ m.held \in {<<>>} \cup (Nat \X (0 .. NumLayers) \X Whats)
    BY DEF Machine
  <1>2. k.gen \in Nat /\ k.layer \in 0 .. NumLayers /\ k.what \in Whats
        /\ k.fits \in BOOLEAN
    BY DEF Kernel
  <1>3. Step(m, k, c).rows \in AllRows
    <2> DEFINE at == IF k.at = Device THEN c.dev ELSE k.at
               row == [p \in Positions |-> IF p \in at .. at + c.n - 1 THEN m.good /\ at = c.pos
                                           ELSE m.rows[k.layer][p]]
    <2>1. CASE k.op = "store"
      <3>1. Step(m, k, c).rows = [m.rows EXCEPT ![k.layer] = row]
        BY <2>1 DEF Step
      <3>2. k.layer \in Layers => \A p \in Positions : m.rows[k.layer][p] \in BOOLEAN
        BY <1>1 DEF AllRows
      <3> HIDE DEF at
      <3>3. k.layer \in Layers => row \in [Positions -> BOOLEAN]
        BY <1>1, <3>2
      <3> HIDE DEF row
      <3> QED
        BY <1>1, <3>1, <3>3 DEF AllRows
    <2>2. CASE k.op # "store"
      BY <1>1, <2>2 DEF Step
    <2> QED
      BY <2>1, <2>2
  <1>4. Step(m, k, c).held \in {<<>>} \cup (Nat \X (0 .. NumLayers) \X Whats)
    BY <1>1, <1>2 DEF Step
  <1>5. Step(m, k, c).good \in BOOLEAN
    BY <1>1, <1>2 DEF Step
  <1>6. Step(m, k, c) = [rows |-> Step(m, k, c).rows, held |-> Step(m, k, c).held,
                         good |-> Step(m, k, c).good]
    BY DEF Step
  <1> QED
    BY <1>3, <1>4, <1>5, <1>6 DEF Machine

\* A kernel that finds its operand, and its context in the cache, goes well.
LEMMA StepGood ==
    ASSUME NEW m \in Machine, m.good, NEW k \in Kernel, NEW c \in Context,
           k.op = "store" => k.layer \in Layers,
           (IF k.at = Device THEN c.dev ELSE k.at) = c.pos, Live(k, c), k.fits,
           k.op = "get" => m.held = <<k.gen, k.layer, k.what>>,
           k.op = "attend" => \A p \in 0 .. c.pos + c.n - 1 : m.rows[k.layer][p]
    PROVE  /\ Step(m, k, c).good
           /\ Step(m, k, c).rows = IF k.op = "store" THEN Extend(m.rows, k.layer, c) ELSE m.rows
           /\ Step(m, k, c).held = IF k.op = "put" THEN <<k.gen, k.layer, k.what>> ELSE m.held
  <1>1. Step(m, k, c).good
    BY DEF Step
  <1>2. k.op = "store" => Step(m, k, c).rows = Extend(m.rows, k.layer, c)
    <2>1. SUFFICES ASSUME k.op = "store"
                   PROVE  Step(m, k, c).rows = Extend(m.rows, k.layer, c)
      OBVIOUS
    <2>2. m.rows \in AllRows
      BY DEF Machine
    <2>3. Step(m, k, c).rows
            = [m.rows EXCEPT ![k.layer] =
                 [p \in Positions |-> IF p \in c.pos .. c.pos + c.n - 1 THEN TRUE ELSE @[p]]]
      BY <2>1 DEF Step
    <2>4. \A p \in Positions : m.rows[k.layer][p] \in BOOLEAN
      BY <2>1, <2>2 DEF AllRows
    <2>5. [p \in Positions |-> IF p \in c.pos .. c.pos + c.n - 1 THEN TRUE ELSE m.rows[k.layer][p]]
            = [p \in Positions |-> p \in c.pos .. c.pos + c.n - 1 \/ m.rows[k.layer][p]]
      BY <2>4
    <2> QED
      BY <2>1, <2>2, <2>3, <2>5 DEF Extend, AllRows
  <1>3. k.op # "store" => Step(m, k, c).rows = m.rows
    BY DEF Step
  <1>4. Step(m, k, c).held = IF k.op = "put" THEN <<k.gen, k.layer, k.what>> ELSE m.held
    BY DEF Step
  <1> QED
    BY <1>1, <1>2, <1>3, <1>4

LEMMA ExtendType ==
    ASSUME NEW R \in AllRows, NEW l, NEW c
    PROVE  Extend(R, l, c) \in AllRows
  BY DEF Extend, AllRows

LEMMA AppendType ==
    ASSUME NEW S, NEW s \in Seq(S), NEW e \in S
    PROVE  Append(s, e) \in Seq(S)
  OBVIOUS

\* What kernel op needs: a GEMV its operand, the attention its context.
Fed(h, c, m, R, op, layer, what) ==
    /\ op \in {"store", "attend"} => layer \in Layers
    /\ op = "get" => Held(h, c, m) = <<h.q8k.gen, layer, what>>
    /\ op = "attend" => \A p \in 0 .. c.pos + c.n - 1 : R[layer][p]

Launched(h, g, c, m, q0, R, op, layer, what) ==
    /\ Ready(g, c, m, q0, IF op = "store" THEN Extend(R, layer, c) ELSE R)
    /\ g.q8k = h.q8k /\ g.pre = h.pre
    /\ op = "put" => Held(g, c, m) = <<h.q8k.gen, layer, what>>

LEMMA LaunchReady ==
    ASSUME NEW h, NEW c, NEW m, NEW q0, NEW R, Ready(h, c, m, q0, R),
           NEW op \in Ops, NEW layer \in 0 .. NumLayers, NEW what \in Whats,
           Fed(h, c, m, R, op, layer, what),
           NEW fits, fits = TRUE, NEW g, g = Launch(h, op, layer, what, fits)
    PROVE  Launched(h, g, c, m, q0, R, op, layer, what)
  <1> DEFINE k == [op |-> op, layer |-> layer, what |-> what, fits |-> fits,
                   at |-> h.at, gen |-> h.q8k.gen, scr |-> h.scr]
             M == Execute(m, h.kernels, c)
  <1>1. h \in Host /\ h.kernels \in Seq(Kernel) /\ h.at \in Int /\ h.q8k.gen \in Nat
        /\ h.scr \in Nat
    BY DEF Ready, Host, Buffer
  <1>2. k \in Kernel
    BY <1>1 DEF Kernel
  <1>3. g = [h EXCEPT !.kernels = Append(h.kernels, k)]
    BY DEF Launch
  <1>4. k.op = op /\ k.layer = layer /\ k.what = what /\ k.fits /\ k.at = h.at
        /\ k.gen = h.q8k.gen /\ k.scr = h.scr
    OBVIOUS
  <1>5. Live(k, c)
    BY <1>4 DEF Live, Ready
  <1> HIDE DEF k
  <1>6. /\ g \in Host /\ g.kernels = Append(h.kernels, k) /\ g.q8k = h.q8k /\ g.pre = h.pre
        /\ g.at = h.at /\ g.scr = h.scr /\ g.capturing = h.capturing
    <2>1. PICK ks \in Seq(Kernel) : ks = Append(h.kernels, k)
      BY <1>1, <1>2, AppendType
    <2>2. g = [h EXCEPT !.kernels = ks]
      BY <1>3, <2>1
    <2> QED
      BY <1>1, <2>1, <2>2 DEF Host
  <1>7. Execute(m, g.kernels, c) = Step(M, k, c)
    <2>1. Execute(m, Append(h.kernels, k), c) = Step(Execute(m, h.kernels, c), k, c)
      BY <1>1, ExecuteAppend
    <2> QED
      BY <1>6, <2>1
  <1>8. M \in Machine /\ M.good /\ M.rows = R /\ M.held = Held(h, c, m) /\ c \in Context
        /\ (IF h.at = Device THEN c.dev ELSE h.at) = c.pos
    BY DEF Ready, Held
  <1>9. \A i \in 1 .. Len(g.kernels) :
          g.kernels[i].at = g.at /\ Live(g.kernels[i], c) /\ g.kernels[i].fits
    <2>1. TAKE i \in 1 .. Len(g.kernels)
    <2>2. PICK N \in Nat : N = Len(h.kernels)
      BY <1>1
    <2>3. i \in 1 .. (N + 1) /\ g.kernels[i] = IF i = N + 1 THEN k ELSE h.kernels[i]
      <3>1. ASSUME NEW ks \in Seq(Kernel), N = Len(ks), NEW j \in 1 .. Len(Append(ks, k))
            PROVE  j \in 1 .. (N + 1) /\ Append(ks, k)[j] = IF j = N + 1 THEN k ELSE ks[j]
        BY <3>1
      <3> QED
        BY <1>1, <1>6, <2>1, <2>2, <3>1
    <2>4. CASE i = N + 1
      BY <1>4, <1>5, <1>6, <2>3, <2>4
    <2>5. CASE i # N + 1
      <3>1. i \in 1 .. Len(h.kernels)
        BY <2>2, <2>3, <2>5
      <3> QED
        BY <1>6, <2>3, <2>5, <3>1 DEF Ready
    <2> QED
      BY <2>4, <2>5
  <1> HIDE DEF M
  <1>10. Step(M, k, c) \in Machine
    BY <1>2, <1>4, <1>8, StepType DEF Fed
  <1>11. /\ Step(M, k, c).good
         /\ Step(M, k, c).rows = IF op = "store" THEN Extend(R, layer, c) ELSE R
         /\ Step(M, k, c).held = IF op = "put" THEN <<h.q8k.gen, layer, what>> ELSE M.held
    BY <1>2, <1>4, <1>5, <1>8, StepGood DEF Fed
  <1>12. (IF op = "store" THEN Extend(R, layer, c) ELSE R) \in AllRows
    BY ExtendType DEF Ready
  <1> QED
    BY <1>6, <1>7, <1>8, <1>9, <1>10, <1>11, <1>12 DEF Ready, Held, Launched

-----------------------------------------------------------------------------
(* The host's operators.                                                   *)

LEMMA ConfigFacts ==
    ASSUME config \in Configs
    PROVE  /\ config.hidden \in Nat /\ config.inter \in Nat
           /\ config.qkv \in Kinds \cup {"fused"} /\ config.attnO \in Kinds
           /\ config.gateUp \in Kinds /\ config.down \in Kinds /\ config.head \in Kinds
           /\ config.fold \in BOOLEAN /\ config.dp4a \in BOOLEAN /\ config.split \in BOOLEAN
           /\ config.graph \in BOOLEAN /\ config.warm \in BOOLEAN
  BY ConfigsAssumption

LEMMA SizeFacts ==
    ASSUME config \in Configs, NEW blocks \in {config.hidden, config.inter}
    PROVE  /\ Q81(blocks) \in Nat /\ Q8K(blocks) \in Nat
           /\ Q81(blocks) \in Sizes /\ Q8K(blocks) \in Sizes
  BY ConfigFacts DEF Q81, Q8K, Sizes

LEMMA FlagReady ==
    ASSUME NEW h, NEW c, NEW m, NEW q0, NEW R, Ready(h, c, m, q0, R), NEW flag \in BOOLEAN,
           NEW g, g = [h EXCEPT !.pre = flag]
    PROVE  /\ Ready(g, c, m, q0, R)
           /\ g.q8k = h.q8k /\ g.pre = flag /\ Held(g, c, m) = Held(h, c, m)
  <1>1. /\ g \in Host /\ g.kernels = h.kernels /\ g.q8k = h.q8k /\ g.pre = flag
        /\ g.at = h.at /\ g.scr = h.scr /\ g.capturing = h.capturing
    BY DEF Ready, Host
  <1> QED
    BY <1>1 DEF Ready, Held

LEMMA EnsureReady ==
    ASSUME NEW h, NEW c, NEW m, NEW q0, NEW R, Ready(h, c, m, q0, R),
           NEW bytes \in Nat, bytes \in Sizes, Enough(config, q0.bytes) => bytes <= q0.bytes,
           NEW g, g = Ensure(h, bytes)
    PROVE  /\ Ready(g, c, m, q0, R)
           /\ bytes <= g.q8k.bytes /\ g.pre = h.pre /\ Held(g, c, m) = Held(h, c, m)
  <1> DEFINE b == Ensured(h.q8k, bytes)
  <1>1. h \in Host /\ h.q8k \in Buffer /\ h.q8k.gen \in Nat /\ h.q8k.bytes \in Nat
        /\ q0.bytes \in Nat
    BY DEF Ready, Host, Buffer
  <1>2. /\ b \in Buffer /\ bytes <= b.bytes /\ h.q8k.bytes <= b.bytes
        /\ b.bytes \in {bytes, h.q8k.bytes}
        /\ h.q8k.bytes >= bytes => b = h.q8k
    BY <1>1 DEF Ensured, Buffer
  <1>3. Enough(config, q0.bytes) => b = h.q8k
    <2>1. Enough(config, q0.bytes) => h.q8k.bytes >= bytes
      BY DEF Ready
    <2> QED
      BY <1>2, <2>1
  <1>4. b.gen \in c.gens
    <2>1. CASE Enough(config, q0.bytes)
      BY <1>3, <2>1 DEF Ready
    <2>2. CASE ~ Enough(config, q0.bytes)
      BY <1>2, <2>2 DEF Ready, Buffer
    <2> QED
      BY <2>1, <2>2
  <1>5. g = [h EXCEPT !.q8k = b]
    BY DEF Ensure
  <1> HIDE DEF b
  <1>6. /\ g \in Host /\ g.kernels = h.kernels /\ g.q8k = b /\ g.pre = h.pre
        /\ g.at = h.at /\ g.scr = h.scr /\ g.capturing = h.capturing
    BY <1>1, <1>2, <1>5 DEF Host
  <1>7. q0.bytes <= b.bytes /\ b.bytes \in Sizes
    BY <1>1, <1>2 DEF Ready, Buffer
  <1> QED
    BY <1>2, <1>3, <1>4, <1>6, <1>7 DEF Ready, Held

LEMMA PutReady ==
    ASSUME NEW h, NEW c, NEW m, NEW q0, NEW R, Ready(h, c, m, q0, R),
           NEW layer \in 0 .. NumLayers, NEW what \in Whats, NEW bytes \in Nat,
           bytes <= h.q8k.bytes, NEW g, g = Put(h, layer, what, bytes)
    PROVE  /\ Ready(g, c, m, q0, R)
           /\ g.q8k = h.q8k /\ g.pre = h.pre
           /\ Held(g, c, m) = <<h.q8k.gen, layer, what>>
  <1>1. PICK fits : fits = (bytes <= h.q8k.bytes)
    OBVIOUS
  <1>2. fits = TRUE /\ g = Launch(h, "put", layer, what, fits)
    BY <1>1 DEF Put
  <1>3. PICK op \in Ops : op = "put"
    BY DEF Ops
  <1>4. fits = TRUE /\ g = Launch(h, op, layer, what, fits)
    BY <1>2, <1>3
  <1>5. op # "store" /\ op # "get" /\ op # "attend"
    BY <1>3
  <1>6. Fed(h, c, m, R, op, layer, what)
    BY <1>5 DEF Fed
  <1>7. Launched(h, g, c, m, q0, R, op, layer, what)
    BY <1>4, <1>6, LaunchReady
  <1> QED
    BY <1>3, <1>5, <1>7 DEF Launched

LEMMA GetReady ==
    ASSUME NEW h, NEW c, NEW m, NEW q0, NEW R, Ready(h, c, m, q0, R),
           NEW layer \in 0 .. NumLayers, NEW what \in Whats,
           Held(h, c, m) = <<h.q8k.gen, layer, what>>,
           NEW g, g = Get(h, layer, what)
    PROVE  Ready(g, c, m, q0, R) /\ g.q8k = h.q8k /\ g.pre = h.pre
  <1>1. PICK fits : fits = TRUE /\ g = Launch(h, "get", layer, what, fits)
    BY DEF Get
  <1>2. PICK op \in Ops : op = "get"
    BY DEF Ops
  <1>3. fits = TRUE /\ g = Launch(h, op, layer, what, fits)
    BY <1>1, <1>2
  <1>4. op # "store" /\ op # "attend"
    BY <1>2
  <1>5. Fed(h, c, m, R, op, layer, what)
    BY <1>4 DEF Fed
  <1>6. Launched(h, g, c, m, q0, R, op, layer, what)
    BY <1>3, <1>5, LaunchReady
  <1> QED
    BY <1>4, <1>6 DEF Launched

LEMMA NormReady ==
    ASSUME NEW h, NEW c, NEW m, NEW q0, NEW R, Ready(h, c, m, q0, R), config \in Configs,
           NEW layer \in 0 .. NumLayers, NEW what \in Whats, NEW wanted \in BOOLEAN,
           NEW g, g = Norm(h, layer, what, wanted)
    PROVE  /\ Ready(g, c, m, q0, R)
           /\ g.pre => Held(g, c, m) = <<g.q8k.gen, layer, what>>
  <1>1. Q81(config.hidden) \in Nat
    BY SizeFacts
  <1>2. CASE wanted /\ h.q8k.bytes >= Q81(config.hidden)
    <2>1. PICK f : f = Put(h, layer, what, Q81(config.hidden))
      OBVIOUS
    <2>2. h.q8k.bytes \in Nat
      BY DEF Ready, Host, Buffer
    <2>3. Q81(config.hidden) <= h.q8k.bytes
      BY <1>1, <1>2, <2>2
    <2>4. Ready(f, c, m, q0, R) /\ f.q8k = h.q8k /\ Held(f, c, m) = <<h.q8k.gen, layer, what>>
      BY <1>1, <2>1, <2>3, PutReady
    <2>5. PICK flag \in BOOLEAN : g = [f EXCEPT !.pre = flag]
      BY <1>2, <2>1 DEF Norm
    <2>6. Ready(g, c, m, q0, R) /\ g.q8k = f.q8k /\ Held(g, c, m) = Held(f, c, m)
      BY <2>4, <2>5, FlagReady
    <2> QED
      BY <2>4, <2>6
  <1>3. CASE ~(wanted /\ h.q8k.bytes >= Q81(config.hidden))
    <2>1. g = [h EXCEPT !.pre = FALSE]
      BY <1>3 DEF Norm
    <2> QED
      BY <2>1, FlagReady
  <1> QED
    BY <1>2, <1>3

LEMMA GemvReady ==
    ASSUME NEW h, NEW c, NEW m, NEW q0, NEW R, Ready(h, c, m, q0, R), config \in Configs,
           NEW layer \in 0 .. NumLayers, NEW what \in Whats, NEW kind \in Kinds,
           NEW blocks \in {config.hidden, config.inter},
           Enough(config, q0.bytes) => Need(kind, blocks) <= q0.bytes,
           kind = "q81" /\ h.pre => Held(h, c, m) = <<h.q8k.gen, layer, what>>,
           NEW g, g = Gemv(h, layer, what, kind, blocks)
    PROVE  Ready(g, c, m, q0, R)
  <1>1. CASE kind = "float"
    BY <1>1 DEF Gemv
  <1>2. CASE kind = "q81" /\ h.pre
    <2>1. g = Get(h, layer, what)
      BY <1>2 DEF Gemv
    <2> QED
      BY <1>2, <2>1, GetReady
  <1>3. CASE kind # "float" /\ ~(kind = "q81" /\ h.pre)
    <2>1. PICK own : own = IF kind = "q81" THEN Q81(blocks) ELSE Q8K(blocks)
      OBVIOUS
    <2>2. own \in Nat /\ own \in Sizes
      BY <2>1, SizeFacts
    <2>3. own = Need(kind, blocks)
      BY <1>3, <2>1 DEF Need, Kinds
    <2>4. PICK e : e = Ensure(h, own)
      OBVIOUS
    <2>5. Ready(e, c, m, q0, R) /\ own <= e.q8k.bytes
      BY <2>2, <2>3, <2>4, EnsureReady
    <2>6. PICK f : f = Put(e, layer, what, own)
      OBVIOUS
    <2>7. Ready(f, c, m, q0, R) /\ f.q8k = e.q8k /\ Held(f, c, m) = <<e.q8k.gen, layer, what>>
      BY <2>2, <2>5, <2>6, PutReady
    <2>8. g = Get(f, layer, what)
      BY <1>3, <2>1, <2>4, <2>6 DEF Gemv
    <2> QED
      BY <2>7, <2>8, GetReady
  <1> QED
    BY <1>1, <1>2, <1>3

LEMMA QkvReady ==
    ASSUME NEW h, NEW c, NEW m, NEW q0, NEW R, Ready(h, c, m, q0, R), config \in Configs,
           NEW layer \in 0 .. NumLayers,
           h.pre => Held(h, c, m) = <<h.q8k.gen, layer, "norm">>,
           NEW g, g = Qkv(h, layer)
    PROVE  Ready(g, c, m, q0, R)
  <1>1. CASE config.qkv # "fused"
    <2>1. PICK f : f = [h EXCEPT !.pre = FALSE]
      OBVIOUS
    <2>2. Ready(f, c, m, q0, R) /\ ~f.pre
      BY <2>1, FlagReady
    <2>3. g = Gemv(f, layer, "norm", config.qkv, config.hidden)
      BY <1>1, <2>1 DEF Qkv
    <2>4. config.qkv \in Kinds /\ "norm" \in Whats
      BY <1>1, ConfigFacts DEF Whats
    <2>5. Enough(config, q0.bytes) => Need(config.qkv, config.hidden) <= q0.bytes
      BY DEF Enough
    <2> QED
      BY <2>2, <2>3, <2>4, <2>5, GemvReady
  <1>2. CASE config.qkv = "fused" /\ h.pre
    <2>1. g = Get(h, layer, "norm") /\ "norm" \in Whats
      BY <1>2 DEF Qkv, Whats
    <2> QED
      BY <1>2, <2>1, GetReady
  <1>3. CASE config.qkv = "fused" /\ ~h.pre
    BY <1>3 DEF Qkv
  <1> QED
    BY <1>1, <1>2, <1>3

LEMMA CombineReady ==
    ASSUME NEW h, NEW c, NEW m, NEW q0, NEW R, Ready(h, c, m, q0, R), config \in Configs,
           NEW layer \in 0 .. NumLayers, CombineWrites, NEW g, g = Combine(h, layer)
    PROVE  /\ Ready(g, c, m, q0, R)
           /\ config.attnO = "q81" /\ g.pre => Held(g, c, m) = <<g.q8k.gen, layer, "attn">>
  <1>1. PICK need : need = Q81(config.hidden)
    OBVIOUS
  <1>2. PICK e : e = IF h.capturing THEN h ELSE Ensure(h, need)
    OBVIOUS
  <1>3. need \in Nat /\ need \in Sizes
    BY <1>1, SizeFacts
  <1>4. CASE ~config.fold
    <2>1. g = [h EXCEPT !.pre = FALSE]
      BY <1>4 DEF Combine
    <2> QED
      BY <2>1, FlagReady
  <1>5. CASE config.fold
    <2>1. Enough(config, q0.bytes) => need <= q0.bytes
      BY <1>1, <1>5 DEF Enough
    <2>2. Ready(e, c, m, q0, R) /\ need <= e.q8k.bytes
      <3>1. CASE h.capturing
        <4>1. need <= q0.bytes /\ q0.bytes <= h.q8k.bytes /\ q0.bytes \in Nat /\ h.q8k.bytes \in Nat
          BY <2>1, <3>1 DEF Ready, Buffer, Host
        <4> QED
          BY <1>2, <1>3, <3>1, <4>1
      <3>2. CASE ~h.capturing
        <4>1. e = Ensure(h, need)
          BY <1>2, <3>2
        <4> QED
          BY <1>3, <2>1, <4>1, EnsureReady
      <3> QED
        BY <3>1, <3>2
    <2>3. g = IF e.q8k.gen = 0 THEN [e EXCEPT !.pre = FALSE]
              ELSE [(IF config.split THEN Put(e, layer, "attn", need) ELSE e) EXCEPT !.pre = TRUE]
      BY <1>1, <1>2, <1>5 DEF Combine
    <2>4. CASE e.q8k.gen = 0
      <3>1. g = [e EXCEPT !.pre = FALSE]
        BY <2>3, <2>4
      <3> QED
        BY <2>2, <3>1, FlagReady
    <2>5. CASE e.q8k.gen # 0 /\ config.split
      <3>1. PICK f : f = Put(e, layer, "attn", need)
        OBVIOUS
      <3>2. Ready(f, c, m, q0, R) /\ Held(f, c, m) = <<e.q8k.gen, layer, "attn">> /\ f.q8k = e.q8k
        BY <1>3, <2>2, <3>1, PutReady DEF Whats
      <3>3. PICK flag \in BOOLEAN : g = [f EXCEPT !.pre = flag]
        BY <2>3, <2>5, <3>1
      <3>4. Ready(g, c, m, q0, R) /\ g.q8k = f.q8k /\ Held(g, c, m) = Held(f, c, m)
        BY <3>2, <3>3, FlagReady
      <3> QED
        BY <3>2, <3>4
    <2>6. CASE e.q8k.gen # 0 /\ ~config.split
      <3>1. g = [e EXCEPT !.pre = TRUE]
        BY <2>3, <2>6
      <3>2. config.attnO # "q81"
        BY <1>5, <2>6 DEF CombineWrites, IsFed
      <3> QED
        BY <2>2, <3>1, <3>2, FlagReady
    <2> QED
      BY <2>4, <2>5, <2>6
  <1>6. config.fold \in BOOLEAN
    BY ConfigFacts
  <1> QED
    BY <1>4, <1>5, <1>6

-----------------------------------------------------------------------------
(* Layers and passes.                                                      *)

LEMMA StoreReady ==
    ASSUME NEW h, NEW c, NEW m, NEW q0, NEW R, Ready(h, c, m, q0, R), NEW l \in Layers,
           NEW fits, fits = TRUE, NEW g, g = Launch(h, "store", l, "kv", fits)
    PROVE  Ready(g, c, m, q0, Extend(R, l, c))
  <1>1. PICK op \in Ops : op = "store"
    BY DEF Ops
  <1>2. PICK what \in Whats : what = "kv"
    BY DEF Whats
  <1>3. Fed(h, c, m, R, op, l, what)
    BY <1>1 DEF Fed
  <1>4. l \in 0 .. NumLayers
    BY SizesAssumption DEF Layers
  <1>5. g = Launch(h, op, l, what, fits)
    BY <1>1, <1>2
  <1>6. Launched(h, g, c, m, q0, R, op, l, what)
    BY <1>3, <1>4, <1>5, LaunchReady
  <1> QED
    BY <1>1, <1>6 DEF Launched

LEMMA AttendReady ==
    ASSUME NEW h, NEW c, NEW m, NEW q0, NEW R, Ready(h, c, m, q0, R), NEW l \in Layers,
           \A p \in 0 .. c.pos + c.n - 1 : R[l][p],
           NEW fits, fits = TRUE, NEW g, g = Launch(h, "attend", l, "kv", fits)
    PROVE  Ready(g, c, m, q0, R)
  <1>1. PICK op \in Ops : op = "attend"
    BY DEF Ops
  <1>2. PICK what \in Whats : what = "kv"
    BY DEF Whats
  <1>3. Fed(h, c, m, R, op, l, what)
    BY <1>1 DEF Fed
  <1>4. l \in 0 .. NumLayers
    BY SizesAssumption DEF Layers
  <1>5. g = Launch(h, op, l, what, fits)
    BY <1>1, <1>2
  <1>6. Launched(h, g, c, m, q0, R, op, l, what)
    BY <1>3, <1>4, <1>5, LaunchReady
  <1> QED
    BY <1>1, <1>6 DEF Launched

\* The rows of the tokens before those of the pass are the session's.
ContextIn(R, c) == \A l \in Layers, p \in 0 .. c.pos - 1 : R[l][p]

LEMMA ExtendContext ==
    ASSUME NEW c \in Context, c.pos + c.n <= MaxPos, NEW R \in AllRows, ContextIn(R, c),
           NEW l \in Layers
    PROVE  ContextIn(Extend(R, l, c), c) /\ \A p \in 0 .. c.pos + c.n - 1 : Extend(R, l, c)[l][p]
  <1>1. c.pos \in Nat /\ c.n \in Nat
    BY DEF Context
  <1>2. \A p \in 0 .. c.pos + c.n - 1 :
           p \in Positions /\ (p \in 0 .. c.pos - 1 \/ p \in c.pos .. c.pos + c.n - 1)
    BY <1>1, SizesAssumption DEF Positions
  <1>3. \A p \in 0 .. c.pos - 1 : p \in 0 .. c.pos + c.n - 1
    BY <1>1
  <1> QED
    BY <1>2, <1>3 DEF Extend, ContextIn

LEMMA BatchLayerReady ==
    ASSUME NEW h, NEW c, NEW m, NEW q0, NEW R, Ready(h, c, m, q0, R), ContextIn(R, c),
           NEW l \in Layers, NEW g, g = BatchLayer(h, l)
    PROVE  Ready(g, c, m, q0, Extend(R, l, c))
  <1>1. PICK fits : fits = TRUE
    OBVIOUS
  <1>2. PICK st : st = Launch(h, "store", l, "kv", fits)
    OBVIOUS
  <1>3. Ready(st, c, m, q0, Extend(R, l, c))
    BY <1>1, <1>2, StoreReady
  <1>4. \A p \in 0 .. c.pos + c.n - 1 : Extend(R, l, c)[l][p]
    BY ExtendContext DEF Ready
  <1>5. g = Launch(st, "attend", l, "kv", fits)
    BY <1>1, <1>2 DEF BatchLayer
  <1> QED
    BY <1>1, <1>3, <1>4, <1>5, AttendReady

LEMMA DecodeLayerReady ==
    ASSUME NEW h, NEW c, NEW m, NEW q0, NEW R, Ready(h, c, m, q0, R), ContextIn(R, c),
           config \in Configs, CombineWrites, NEW l \in Layers, NEW g, g = DecodeLayer(h, l)
    PROVE  Ready(g, c, m, q0, Extend(R, l, c))
  <1>1. PICK fits : fits = TRUE
    OBVIOUS
  <1>2. l \in 0 .. NumLayers
    BY SizesAssumption DEF Layers
  <1>3. /\ "norm" \in Whats /\ "attn" \in Whats /\ "ffn" \in Whats /\ "gate" \in Whats
        /\ config.hidden \in {config.hidden, config.inter}
        /\ config.inter \in {config.hidden, config.inter}
    BY DEF Whats
  <1>4. PICK w1 \in BOOLEAN : w1 = (config.fold /\ config.dp4a /\ Wide)
    OBVIOUS
  <1>5. PICK w2 \in BOOLEAN : w2 = (config.fold /\ Wide)
    OBVIOUS
  <1>6. PICK n1 : n1 = Norm(h, l, "norm", w1)
    OBVIOUS
  <1>7. PICK qk : qk = Qkv(n1, l)
    OBVIOUS
  <1>8. PICK st : st = Launch(qk, "store", l, "kv", fits)
    OBVIOUS
  <1>9. PICK ao : ao = Launch(st, "attend", l, "kv", fits)
    OBVIOUS
  <1>10. PICK co : co = Combine(ao, l)
    OBVIOUS
  <1>11. PICK re : re = Gemv(co, l, "attn", config.attnO, config.hidden)
    OBVIOUS
  <1>12. PICK n2 : n2 = Norm(re, l, "ffn", w2)
    OBVIOUS
  <1>13. PICK gu : gu = Gemv(n2, l, "ffn", config.gateUp, config.hidden)
    OBVIOUS
  <1>14. PICK ga : ga = [gu EXCEPT !.pre = FALSE]
    OBVIOUS
  <1>15. g = Gemv(ga, l, "gate", config.down, config.inter)
    BY <1>1, <1>4, <1>5, <1>6, <1>7, <1>8, <1>9, <1>10, <1>11, <1>12, <1>13, <1>14 DEF DecodeLayer
  <1>16. Ready(n1, c, m, q0, R) /\ (n1.pre => Held(n1, c, m) = <<n1.q8k.gen, l, "norm">>)
    BY <1>2, <1>3, <1>6, NormReady
  <1>17. Ready(qk, c, m, q0, R)
    BY <1>2, <1>7, <1>16, QkvReady
  <1>18. Ready(st, c, m, q0, Extend(R, l, c))
    BY <1>1, <1>8, <1>17, StoreReady
  <1>19. \A p \in 0 .. c.pos + c.n - 1 : Extend(R, l, c)[l][p]
    BY ExtendContext DEF Ready
  <1>20. Ready(ao, c, m, q0, Extend(R, l, c))
    BY <1>1, <1>9, <1>18, <1>19, AttendReady
  <1>21. /\ Ready(co, c, m, q0, Extend(R, l, c))
         /\ config.attnO = "q81" /\ co.pre => Held(co, c, m) = <<co.q8k.gen, l, "attn">>
    BY <1>2, <1>10, <1>20, CombineReady
  <1>22. /\ config.attnO \in Kinds /\ config.gateUp \in Kinds /\ config.down \in Kinds
    BY ConfigFacts
  <1>23. Enough(config, q0.bytes) =>
           /\ Need(config.attnO, config.hidden) <= q0.bytes
           /\ Need(config.gateUp, config.hidden) <= q0.bytes
           /\ Need(config.down, config.inter) <= q0.bytes
    BY DEF Enough
  <1>24. Ready(re, c, m, q0, Extend(R, l, c))
    BY <1>2, <1>3, <1>11, <1>21, <1>22, <1>23, GemvReady
  <1>25. Ready(n2, c, m, q0, Extend(R, l, c)) /\ (n2.pre => Held(n2, c, m) = <<n2.q8k.gen, l, "ffn">>)
    BY <1>2, <1>3, <1>12, <1>24, NormReady
  <1>26. Ready(gu, c, m, q0, Extend(R, l, c))
    BY <1>2, <1>3, <1>13, <1>22, <1>23, <1>25, GemvReady
  <1>27. Ready(ga, c, m, q0, Extend(R, l, c)) /\ ~ga.pre
    BY <1>14, <1>26, FlagReady
  <1> QED
    BY <1>2, <1>3, <1>15, <1>22, <1>23, <1>27, GemvReady

\* The rows R once the first j layers have stored those of the pass.
Filled(R, j, c) ==
    [i \in Layers |-> IF i <= j THEN [p \in Positions |-> p \in c.pos .. c.pos + c.n - 1 \/ R[i][p]]
                      ELSE R[i]]

LEMMA FilledFacts ==
    ASSUME NEW c \in Context, c.pos + c.n <= MaxPos, NEW R \in AllRows, ContextIn(R, c),
           NEW j \in 0 .. NumLayers
    PROVE  /\ Filled(R, j, c) \in AllRows /\ ContextIn(Filled(R, j, c), c)
           /\ j = 0 => Filled(R, j, c) = R
           /\ j # 0 => Extend(Filled(R, j - 1, c), j, c) = Filled(R, j, c)
  <1>1. Filled(R, j, c) \in AllRows
    BY DEF Filled, AllRows
  <1>2. ContextIn(Filled(R, j, c), c)
    <2>1. SUFFICES ASSUME NEW l \in Layers, NEW p \in 0 .. c.pos - 1
                   PROVE  Filled(R, j, c)[l][p]
      BY DEF ContextIn
    <2>2. p \in Positions
      BY SizesAssumption DEF Positions, Context
    <2> QED
      BY <2>2 DEF Filled, ContextIn
  <1>3. ASSUME j = 0
        PROVE  Filled(R, j, c) = R
    <2>1. \A i \in Layers : ~(i <= j)
      BY <1>3 DEF Layers
    <2> QED
      BY <2>1 DEF Filled, AllRows
  <1>4. ASSUME j # 0
        PROVE  Extend(Filled(R, j - 1, c), j, c) = Filled(R, j, c)
    <2>1. j \in Nat /\ \A i \in Layers : i \in Nat /\ (i <= j <=> i <= j - 1 \/ i = j) /\ ~(j <= j - 1)
      BY DEF Layers
    <2> QED
      BY <2>1 DEF Filled, Extend
  <1> QED
    BY <1>1, <1>2, <1>3, <1>4

LEMMA LayersReady ==
    ASSUME config \in Configs, CombineWrites,
           NEW h, NEW c, NEW m, NEW q0, NEW R, Ready(h, c, m, q0, R), ContextIn(R, c), NEW n,
           NEW f, f = [l \in Layers |-> l], NEW j \in 0 .. NumLayers
    PROVE  Ready(Layering!Fold(n, h, f, 1 .. j), c, m, q0, Filled(R, j, c))
  <1> DEFINE Part(i) == Layering!Fold(n, h, f, 1 .. i)
             B == {i \in Nat : i <= NumLayers /\ ~ Ready(Part(i), c, m, q0, Filled(R, i, c))}
  <1>1. SUFFICES ASSUME B # {}
                 PROVE  FALSE
    OBVIOUS
  <1>2. PICK i \in B : \A k \in B : i <= k
    BY <1>1, Least
  <1>3. i \in 0 .. NumLayers /\ i \in Nat
    BY <1>2, SizesAssumption
  <1>4. CASE i = 0
    <2>1. Part(i) = h
      BY <1>4, LargestPicked, Layering!FoldEmpty
    <2>2. Filled(R, i, c) = R
      BY <1>3, <1>4, FilledFacts DEF Ready
    <2> QED
      BY <1>2, <2>1, <2>2
  <1>5. CASE i # 0
    <2>1. i - 1 \in Nat /\ i - 1 \notin B /\ i - 1 \in 0 .. NumLayers /\ i \in Layers
      BY <1>2, <1>3, <1>5, SizesAssumption DEF Layers
    <2>2. PICK g : g = Part(i - 1)
      OBVIOUS
    <2>3. PICK G : G = Filled(R, i - 1, c)
      OBVIOUS
    <2>4. Ready(g, c, m, q0, G)
      BY <2>1, <2>2, <2>3
    <2>5. ContextIn(G, c)
      BY <2>1, <2>3, FilledFacts DEF Ready
    <2>6. Part(i) = Layer(g, f[i], n)
      BY <1>3, <1>5, <2>2, LargestPicked, Layering!FoldNext
    <2>7. f[i] = i
      BY <2>1
    <2>8. Extend(G, i, c) = Filled(R, i, c)
      BY <1>3, <1>5, <2>3, FilledFacts DEF Ready
    <2> HIDE DEF Part
    <2>9. CASE n = 1
      <3>1. Part(i) = DecodeLayer(g, i)
        BY <2>6, <2>7, <2>9 DEF Layer
      <3> QED
        BY <1>2, <2>1, <2>4, <2>5, <2>8, <3>1, DecodeLayerReady
    <2>10. CASE n # 1
      <3>1. Part(i) = BatchLayer(g, i)
        BY <2>6, <2>7, <2>10 DEF Layer
      <3> QED
        BY <1>2, <2>1, <2>4, <2>5, <2>8, <3>1, BatchLayerReady
    <2> QED
      BY <2>9, <2>10
  <1> QED
    BY <1>4, <1>5

\* A pass begins, folds its layers, and ends with the LM head.
Started(h, at, buffer, capturing, scr) ==
    h = [q8k |-> buffer, kernels |-> <<>>, pre |-> FALSE,
         capturing |-> capturing, at |-> at, scr |-> scr]
HeadAfter(g, h) == g = Gemv([h EXCEPT !.pre = FALSE], 0, "head", config.head, config.hidden)

LEMMA EnqueueIsFold ==
    ASSUME NEW n, NEW at, NEW buffer, NEW capturing, NEW scr,
           NEW h, Started(h, at, buffer, capturing, scr),
           NEW f, f = [l \in Layers |-> l], NEW body, body = Layering!Fold(n, h, f, DOMAIN f)
    PROVE  HeadAfter(Enqueue(n, at, buffer, capturing, scr), body)
  BY DEF Started, HeadAfter, Enqueue, FoldLeft, MapThenFoldSet, Max, Layering!Fold,
         Layering!MapThenFoldSet, Largest

\* A whole pass, whoever starts it: eager, captured, or over what a replay that
\* failed has left in m.
LEMMA EnqueueReady ==
    ASSUME config \in Configs, CombineWrites, NEW c \in Context, c.pos + c.n <= MaxPos,
           NEW m \in Machine, m.good, ContextIn(m.rows, c),
           NEW q0 \in Buffer, q0.bytes \in Sizes, q0.gen \in c.gens,
           NEW capturing \in BOOLEAN, capturing \/ c.gens # Nat => Enough(config, q0.bytes),
           NEW at \in Int, (IF at = Device THEN c.dev ELSE at) = c.pos, NEW n,
           NEW g, g = Enqueue(n, at, q0, capturing, c.scr)
    PROVE  Ready(g, c, m, q0, Filled(m.rows, NumLayers, c))
  <1>1. PICK h0 : Started(h0, at, q0, capturing, c.scr)
    BY DEF Started
  <1>2. PICK f : f = [l \in Layers |-> l]
    OBVIOUS
  <1>3. DOMAIN f = 1 .. NumLayers
    BY <1>2 DEF Layers
  <1>4. PICK body : body = Layering!Fold(n, h0, f, 1 .. NumLayers)
    OBVIOUS
  <1>5. PICK b : b = [body EXCEPT !.pre = FALSE]
    OBVIOUS
  <1>6. g = Gemv(b, 0, "head", config.head, config.hidden)
    <2>1. body = Layering!Fold(n, h0, f, DOMAIN f)
      BY <1>3, <1>4
    <2>2. HeadAfter(Enqueue(n, at, q0, capturing, c.scr), body)
      BY <1>1, <1>2, <2>1, EnqueueIsFold
    <2> QED
      BY <1>5, <2>2 DEF HeadAfter
  <1>7. Ready(h0, c, m, q0, m.rows)
    <2>1. h0 \in Host /\ h0.kernels = <<>> /\ h0.q8k = q0 /\ h0.at = at /\ h0.scr = c.scr
          /\ h0.capturing = capturing
      BY <1>1 DEF Started, Host, Context
    <2>2. Len(h0.kernels) = 0 /\ 1 .. 0 = {}
      BY <2>1
    <2>3. \A i \in 1 .. Len(h0.kernels) : FALSE
      BY <2>2
    <2>4. Execute(m, h0.kernels, c) = m
      BY <2>1, ExecuteNone
    <2>5. m.rows \in AllRows
      BY DEF Machine
    <2>6. q0.bytes \in Nat
      BY DEF Buffer
    <2> QED
      BY <2>1, <2>3, <2>4, <2>5, <2>6 DEF Ready
  <1>8. Ready(body, c, m, q0, Filled(m.rows, NumLayers, c))
    <2>1. NumLayers \in 0 .. NumLayers
      BY SizesAssumption
    <2> QED
      BY <1>2, <1>4, <1>7, <2>1, LayersReady
  <1>9. Ready(b, c, m, q0, Filled(m.rows, NumLayers, c)) /\ ~b.pre
    <2>1. PICK R : R = Filled(m.rows, NumLayers, c)
      OBVIOUS
    <2>2. PICK flag \in BOOLEAN : ~flag /\ b = [body EXCEPT !.pre = flag]
      BY <1>5
    <2>3. Ready(body, c, m, q0, R)
      BY <1>8, <2>1
    <2>4. Ready(b, c, m, q0, R) /\ b.pre = flag
      BY <2>2, <2>3, FlagReady
    <2> QED
      BY <2>1, <2>2, <2>4
  <1>10. 0 \in 0 .. NumLayers /\ "head" \in Whats /\ config.head \in Kinds
         /\ config.hidden \in {config.hidden, config.inter}
    BY ConfigFacts, SizesAssumption DEF Whats
  <1>11. Enough(config, q0.bytes) => Need(config.head, config.hidden) <= q0.bytes
    BY DEF Enough
  <1> QED
    BY <1>6, <1>9, <1>10, <1>11, GemvReady

LEMMA FilledAll ==
    ASSUME NEW c \in Context, c.pos + c.n <= MaxPos, NEW R \in AllRows, ContextIn(R, c)
    PROVE  /\ Filled(R, NumLayers, c) \in AllRows
           /\ \A l \in Layers, p \in 0 .. c.pos + c.n - 1 : Filled(R, NumLayers, c)[l][p]
  <1>1. c.pos \in Nat /\ c.n \in Nat
    BY DEF Context
  <1>2. \A p \in 0 .. c.pos + c.n - 1 :
           p \in Positions /\ (p \in 0 .. c.pos - 1 \/ p \in c.pos .. c.pos + c.n - 1)
    BY <1>1, SizesAssumption DEF Positions
  <1>3. \A l \in Layers : l <= NumLayers
    BY DEF Layers
  <1>4. NumLayers \in 0 .. NumLayers
    BY SizesAssumption
  <1>5. Filled(R, NumLayers, c) \in AllRows
    BY <1>4, FilledFacts
  <1> QED
    BY <1>2, <1>3, <1>5 DEF Filled, ContextIn

\* Some kernels of a pass, not all: the rows of earlier tokens stay.
LEMMA ExecuteKeeps ==
    ASSUME NEW c \in Context, c.pos + c.n <= MaxPos, NEW m \in Machine, NEW ks, NEW n \in Nat, DOMAIN ks = 1 .. n,
           \A i \in 1 .. n :
              ks[i] \in Kernel /\ (IF ks[i].at = Device THEN c.dev ELSE ks[i].at) = c.pos
    PROVE  /\ Execute(m, ks, c) \in Machine
           /\ ContextIn(m.rows, c) => ContextIn(Execute(m, ks, c).rows, c)
  <1> DEFINE Part(i) == Running!Fold(c, m, ks, 1 .. i)
             Kept(M) == M \in Machine /\ (ContextIn(m.rows, c) => ContextIn(M.rows, c))
             B == {i \in Nat : i <= n /\ ~ Kept(Part(i))}
  <1>1. SUFFICES ASSUME B # {}
                 PROVE  FALSE
    <2>1. n \notin B => Kept(Part(n))
      OBVIOUS
    <2> QED
      BY <2>1, ExecuteIsFold
  <1>2. PICK i \in B : \A k \in B : i <= k
    BY <1>1, Least
  <1>3. i \in Nat /\ i <= n
    BY <1>2
  <1>4. CASE i = 0
    <2>1. Part(i) = m
      BY <1>4, LargestPicked, Running!FoldEmpty
    <2> QED
      BY <1>2, <2>1
  <1>5. CASE i # 0
    <2>1. i - 1 \in Nat /\ i - 1 <= n /\ i - 1 \notin B /\ i \in 1 .. n
      BY <1>2, <1>3, <1>5
    <2>2. PICK M : M = Part(i - 1)
      OBVIOUS
    <2>3. M \in Machine /\ (ContextIn(m.rows, c) => ContextIn(M.rows, c))
      BY <2>1, <2>2
    <2>4. PICK k \in Kernel : k = ks[i]
      BY <2>1
    <2>5. Part(i) = Step(M, k, c)
      BY <1>3, <1>5, <2>2, <2>4, LargestPicked, Running!FoldNext
    <2> HIDE DEF Part
    <2>6. Step(M, k, c) \in Machine
      BY <2>3, StepType
    <2>7. (IF k.at = Device THEN c.dev ELSE k.at) = c.pos
      BY <2>1, <2>4
    <2>8. ASSUME NEW l \in Layers, NEW p \in 0 .. c.pos - 1
          PROVE  Step(M, k, c).rows[l][p] = M.rows[l][p]
      <3>1. M.rows \in AllRows /\ M.good \in BOOLEAN /\ c.pos \in Nat /\ p \in Positions
            /\ p \notin c.pos .. c.pos + c.n - 1
        BY <2>3, <2>8, SizesAssumption DEF Machine, Context, Positions
      <3>2. CASE k.op = "store"
        <4>1. PICK at : at = IF k.at = Device THEN c.dev ELSE k.at
          OBVIOUS
        <4>2. PICK row : row = [q \in Positions |-> IF q \in at .. at + c.n - 1
                                                   THEN M.good /\ at = c.pos
                                                   ELSE M.rows[k.layer][q]]
          OBVIOUS
        <4>3. Step(M, k, c).rows = [M.rows EXCEPT ![k.layer] = row]
          BY <3>2, <4>1, <4>2 DEF Step
        <4>4. l # k.layer => [M.rows EXCEPT ![k.layer] = row][l] = M.rows[l]
          BY <3>1 DEF AllRows
        <4>5. l = k.layer => [M.rows EXCEPT ![k.layer] = row][l] = row
          BY <3>1 DEF AllRows
        <4>6. l = k.layer => row[p] = M.rows[l][p]
          BY <2>7, <3>1, <4>1, <4>2
        <4> QED
          BY <4>3, <4>4, <4>5, <4>6
      <3>3. CASE k.op # "store"
        BY <3>3 DEF Step
      <3> QED
        BY <3>2, <3>3
    <2>9. ContextIn(M.rows, c) => ContextIn(Step(M, k, c).rows, c)
      BY <2>8 DEF ContextIn
    <2> QED
      BY <1>2, <2>3, <2>5, <2>6, <2>9
  <1> QED
    BY <1>4, <1>5

-----------------------------------------------------------------------------
(* The invariant.                                                          *)

\* The pass from a graph over one token at pos, on the buffer and scratch that
\* its kernels were recorded with.
Owned(c, buffer, scr) ==
    /\ c \in Context /\ c.n = 1 /\ c.pos + 1 <= MaxPos /\ c.dev = c.pos
    /\ c.gens = {buffer} /\ c.scr = scr

\* Recorded kernels that compute a token, at any position and over any rows.
Computes(ks, c, R) ==
    /\ Execute(Fresh(R), ks, c) \in Machine
    /\ Execute(Fresh(R), ks, c).good
    /\ Execute(Fresh(R), ks, c).rows = Filled(R, NumLayers, c)
Faithful(ks, buffer, scr) ==
    /\ ks \in Seq(Kernel) /\ ks # <<>>
    /\ \A i \in 1 .. Len(ks) : /\ ks[i].scr = scr /\ ks[i].fits
                               /\ ks[i].op \in {"put", "get"} => ks[i].gen = buffer
    /\ \A c : Owned(c, buffer, scr) =>
          \A i \in 1 .. Len(ks) : (IF ks[i].at = Device THEN c.dev ELSE ks[i].at) = c.pos
    /\ \A c, R : Owned(c, buffer, scr) /\ R \in AllRows /\ ContextIn(R, c) => Computes(ks, c, R)

Typed ==
    /\ config \in Configs /\ kvPos \in 0 .. MaxPos /\ rows \in AllRows
    /\ q8k \in Buffer /\ q8k.bytes \in Sizes
    /\ scratch \in [gen : Nat, cap : 0 .. MaxSeqLen, oneRow : BOOLEAN]
    /\ graph \in [built : BOOLEAN, failed : BOOLEAN, kernels : Seq(Kernel)]
    /\ graphPos \in Positions /\ answer \in BOOLEAN /\ answer

\* A captured step fits into the buffer, now or once ensureGraphScratch has run.
Roomy == config.graph => Enough(config, AtCapture(config, q8k.bytes))

\* A graph that is built has been recorded on the buffers of this moment, and
\* nothing of an eager pass will make the engine part with them.
GraphRight ==
    IF graph.built
    THEN Enough(config, q8k.bytes) /\ Faithful(graph.kernels, q8k.gen, scratch.gen)
    ELSE graph.kernels = <<>>

IInv == Typed /\ CacheMatchesPosition /\ Roomy /\ GraphRight

LEMMA NeedFacts ==
    ASSUME config \in Configs
    PROVE  \A kind : /\ Need(kind, config.hidden) \in Nat
                     /\ Need(kind, config.inter) \in Nat
  BY SizeFacts DEF Need

LEMMA EnoughMore ==
    ASSUME config \in Configs, NEW a \in Nat, NEW b \in Nat, a <= b
    PROVE  /\ Enough(config, a) => Enough(config, b)
           /\ AtCapture(config, a) \in Nat /\ AtCapture(config, a) <= AtCapture(config, b)
           /\ a <= AtCapture(config, a)
  <1>1. Q81(config.hidden) \in Nat /\ Q8K(config.hidden) \in Nat
    BY SizeFacts
  <1>2. Enough(config, a) => Enough(config, b)
    BY <1>1, NeedFacts DEF Enough
  <1>3. AtCapture(config, a) \in Nat /\ AtCapture(config, a) <= AtCapture(config, b)
        /\ a <= AtCapture(config, a)
    BY <1>1 DEF AtCapture
  <1> QED
    BY <1>2, <1>3

LEMMA ContextFacts ==
    ASSUME IInv, NEW n \in Nat \ {0}, kvPos + n <= MaxPos, NEW c \in Context, c.pos = kvPos, c.n = n
    PROVE  ContextIn(rows, c) /\ kvPos \in Nat
  BY SizesAssumption DEF IInv, Typed, CacheMatchesPosition, ContextIn

LEMMA FreshMachine ==
    ASSUME NEW R \in AllRows
    PROVE  Fresh(R) \in Machine /\ Fresh(R).good /\ Fresh(R).rows = R
  BY DEF Fresh, Machine

\* What an eager pass over n tokens does, from the rows as they are or as a
\* replay that failed has left them.
LEMMA EagerPass ==
    ASSUME IInv, CombineWrites, NEW n \in Nat \ {0}, kvPos + n <= MaxPos, NEW scr \in Nat,
           NEW m \in Machine, m.good, NEW c, c = AsEnqueued(n, scr), ContextIn(m.rows, c),
           NEW q0 \in Buffer, q0.bytes \in Sizes,
           NEW h, h = Enqueue(n, kvPos, q0, FALSE, scr)
    PROVE  c \in Context /\ Ready(h, c, m, q0, Filled(m.rows, NumLayers, c))
  <1>1. kvPos \in Nat /\ kvPos \in Int /\ kvPos # Device /\ config \in Configs
    BY SizesAssumption DEF IInv, Typed, Device
  <1>2. c \in Context /\ c.pos = kvPos /\ c.n = n /\ c.scr = scr /\ c.gens = Nat
    BY <1>1 DEF AsEnqueued, Context
  <1>3. PICK capturing \in BOOLEAN : capturing = FALSE
    OBVIOUS
  <1>4. q0.gen \in c.gens
    BY <1>2 DEF Buffer
  <1>5. h = Enqueue(n, kvPos, q0, capturing, c.scr)
    BY <1>2, <1>3
  <1>6. c.pos + c.n <= MaxPos /\ (IF kvPos = Device THEN c.dev ELSE kvPos) = c.pos
    BY <1>1, <1>2
  <1>7. capturing \/ c.gens # Nat => Enough(config, q0.bytes)
    BY <1>2, <1>3
  <1> QED
    BY <1>1, <1>2, <1>4, <1>5, <1>6, <1>7, EnqueueReady

\* What a capture records computes a token wherever it is replayed.
LEMMA CapturedFaithful ==
    ASSUME IInv, CombineWrites, NEW scr \in Nat, NEW q0 \in Buffer, q0.bytes \in Sizes,
           Enough(config, q0.bytes), NEW capturing \in BOOLEAN, capturing,
           NEW h, h = Enqueue(1, Device, q0, capturing, scr)
    PROVE  h.q8k = q0 /\ Faithful(h.kernels, q0.gen, scr)
  <1>1. config \in Configs /\ Device \in Int /\ q0.gen \in Nat
    BY DEF IInv, Typed, Device, Buffer
  <1>3. ASSUME NEW c, NEW R, Owned(c, q0.gen, scr), R \in AllRows, ContextIn(R, c)
        PROVE  Ready(h, c, Fresh(R), q0, Filled(R, NumLayers, c))
    <2>1. PICK m \in Machine : m = Fresh(R) /\ m.good /\ m.rows = R
      BY <1>3, FreshMachine
    <2>2. c \in Context /\ c.pos + c.n <= MaxPos /\ q0.gen \in c.gens /\ c.scr = scr
          /\ (IF Device = Device THEN c.dev ELSE Device) = c.pos
      BY <1>3 DEF Owned
    <2>3. h = Enqueue(1, Device, q0, capturing, c.scr)
      BY <2>2
    <2>4. Ready(h, c, m, q0, Filled(m.rows, NumLayers, c))
      BY <1>1, <1>3, <2>1, <2>2, <2>3, EnqueueReady
    <2> QED
      BY <2>1, <2>4
  <1>4. ASSUME NEW c, NEW R, Owned(c, q0.gen, scr), R \in AllRows, ContextIn(R, c)
        PROVE  Computes(h.kernels, c, R)
    BY <1>3, <1>4 DEF Ready, Computes
  <1>5. PICK c : c = [n |-> 1, pos |-> 0, dev |-> 0, gens |-> {q0.gen}, scr |-> scr]
    OBVIOUS
  <1>6. Owned(c, q0.gen, scr) /\ c.pos = 0 /\ c.n = 1
    BY <1>1, <1>5, SizesAssumption DEF Owned, Context
  <1>7. PICK R \in AllRows : R = NoRows
    BY DEF NoRows, AllRows
  <1>8. ContextIn(R, c)
    BY <1>6 DEF ContextIn
  <1>9. Ready(h, c, Fresh(R), q0, Filled(R, NumLayers, c))
    BY <1>3, <1>6, <1>8
  <1>10. h.kernels \in Seq(Kernel) /\ h.q8k = q0 /\ h.scr = scr
    BY <1>6, <1>9 DEF Ready, Host, Owned
  <1>11. h.kernels # <<>>
    <2>1. ASSUME h.kernels = <<>>
          PROVE  FALSE
      <3>1. Execute(Fresh(R), h.kernels, c) = Fresh(R)
        BY <2>1, ExecuteNone
      <3>2. R = Filled(R, NumLayers, c)
        BY <1>7, <1>9, <3>1, FreshMachine DEF Ready
      <3>3. 1 \in Layers /\ 1 <= NumLayers /\ 0 \in Positions
        BY SizesAssumption DEF Layers, Positions
      <3>4. Filled(R, NumLayers, c)[1][0]
        <4>1. 0 \in c.pos .. c.pos + c.n - 1
          BY <1>6
        <4>2. Filled(R, NumLayers, c)[1]
                = [p \in Positions |-> p \in c.pos .. c.pos + c.n - 1 \/ R[1][p]]
          BY <3>3 DEF Filled
        <4> QED
          BY <3>3, <4>1, <4>2
      <3>5. ~ R[1][0]
        BY <1>7, <3>3 DEF NoRows
      <3> QED
        BY <3>2, <3>4, <3>5
    <2> QED
      BY <2>1
  <1>12. ASSUME NEW i \in 1 .. Len(h.kernels)
         PROVE  /\ h.kernels[i].scr = scr /\ h.kernels[i].fits
                /\ h.kernels[i].op \in {"put", "get"} => h.kernels[i].gen = q0.gen
    <2>1. Live(h.kernels[i], c) /\ h.kernels[i].fits
      BY <1>9 DEF Ready
    <2>2. c.gens = {q0.gen} /\ c.scr = scr
      BY <1>6 DEF Owned
    <2> QED
      BY <2>1, <2>2 DEF Live
  <1>13. ASSUME NEW d, Owned(d, q0.gen, scr), NEW i \in 1 .. Len(h.kernels)
         PROVE  (IF h.kernels[i].at = Device THEN d.dev ELSE h.kernels[i].at) = d.pos
    <2>1. PICK S \in AllRows : S = [l \in Layers |-> [p \in Positions |-> TRUE]]
      BY DEF AllRows
    <2>2. ContextIn(S, d)
      <3>1. \A p \in 0 .. d.pos - 1 : p \in Positions
        BY <1>13, SizesAssumption DEF Owned, Context, Positions
      <3> QED
        BY <2>1, <3>1 DEF ContextIn
    <2>3. Ready(h, d, Fresh(S), q0, Filled(S, NumLayers, d))
      BY <1>3, <1>13, <2>2
    <2> QED
      BY <2>3 DEF Ready
  <1> QED
    BY <1>4, <1>10, <1>11, <1>12, <1>13 DEF Faithful

-----------------------------------------------------------------------------
(* The passes keep it.                                                     *)

LEMMA FilledSame ==
    ASSUME NEW R, NEW j, NEW c, NEW d, c.pos = d.pos, c.n = d.n
    PROVE  Filled(R, j, c) = Filled(R, j, d)
  BY DEF Filled

\* What every pass leaves, but for the graph.
PassTyped ==
    /\ config \in Configs /\ kvPos \in 0 .. MaxPos /\ rows \in AllRows
    /\ q8k \in Buffer /\ q8k.bytes \in Sizes
    /\ CacheMatchesPosition /\ Roomy

\* A pass over n tokens that has filled the rows R of the context c.
Fills(n, c, R) ==
    /\ n \in Nat \ {0} /\ kvPos + n <= MaxPos
    /\ c \in Context /\ c.pos = kvPos /\ c.n = n /\ R \in AllRows /\ ContextIn(R, c)
    /\ config' = config /\ kvPos' = kvPos + n /\ rows' = Filled(R, NumLayers, c)
    /\ q8k' \in Buffer /\ q8k'.bytes \in Sizes /\ q8k.bytes <= q8k'.bytes

LEMMA FillsTyped ==
    ASSUME IInv, NEW n, NEW c, NEW R, Fills(n, c, R)
    PROVE  PassTyped'
  <1>1. kvPos \in Nat /\ kvPos' \in Nat /\ kvPos' \in 0 .. MaxPos /\ kvPos' = c.pos + c.n
    BY SizesAssumption DEF IInv, Typed, Fills
  <1>2. Filled(R, NumLayers, c) \in AllRows
        /\ \A l \in Layers, p \in 0 .. c.pos + c.n - 1 : Filled(R, NumLayers, c)[l][p]
    BY FilledAll DEF Fills
  <1>3. \A l \in Layers, p \in 0 .. kvPos' - 1 : rows'[l][p]
    BY <1>1, <1>2 DEF Fills
  <1>4. CacheMatchesPosition'
    BY <1>3 DEF CacheMatchesPosition
  <1>5. Roomy'
    <2>1. PICK a \in Nat : a = q8k.bytes
      BY DEF IInv, Typed, Buffer
    <2>2. PICK b \in Nat : b = q8k'.bytes
      BY DEF Fills, Buffer
    <2>3. a <= b /\ config \in Configs /\ config' = config
      BY <2>1, <2>2 DEF Fills, IInv, Typed
    <2>4. AtCapture(config, a) \in Nat /\ AtCapture(config, b) \in Nat
          /\ AtCapture(config, a) <= AtCapture(config, b)
      BY <2>3, EnoughMore
    <2>5. Enough(config, AtCapture(config, a)) => Enough(config, AtCapture(config, b))
      BY <2>3, <2>4, EnoughMore
    <2> QED
      BY <2>1, <2>2, <2>3, <2>5 DEF Roomy, IInv
  <1>6. Sizes' = Sizes
    BY DEF Sizes, Fills
  <1> QED
    BY <1>1, <1>2, <1>4, <1>5, <1>6 DEF PassTyped, Fills, IInv, Typed

\* An eager pass, from the machine m0, on the buffer q0.
EagerRun(n, scr, m0, q0, h, m) ==
    /\ n \in Nat \ {0} /\ kvPos + n <= MaxPos /\ scr \in Nat
    /\ m0 \in Machine /\ m0.good /\ ContextIn(m0.rows, AsEnqueued(n, scr))
    /\ q0 \in Buffer /\ q0.bytes \in Sizes /\ q8k.bytes <= q0.bytes
    /\ h = Enqueue(n, kvPos, q0, FALSE, scr)
    /\ m = Execute(m0, h.kernels, AsEnqueued(n, scr))
    /\ config' = config /\ kvPos' = kvPos + n /\ rows' = m.rows /\ q8k' = h.q8k

LEMMA EagerKeeps ==
    ASSUME IInv, CombineWrites, NEW n, NEW scr, NEW m0, NEW q0, NEW h, NEW m,
           EagerRun(n, scr, m0, q0, h, m)
    PROVE  m.good /\ m \in Machine /\ PassTyped' /\ (Enough(config, q0.bytes) => q8k' = q0)
  <1>1. PICK c : c = AsEnqueued(n, scr)
    OBVIOUS
  <1>2. PICK R : R = m0.rows
    OBVIOUS
  <1>3. c \in Context /\ Ready(h, c, m0, q0, Filled(R, NumLayers, c))
    BY <1>1, <1>2, EagerPass DEF EagerRun
  <1>4. c.pos = kvPos /\ c.n = n
    BY <1>1 DEF AsEnqueued
  <1>5. m.good /\ m \in Machine /\ rows' = Filled(R, NumLayers, c)
    BY <1>1, <1>3 DEF EagerRun, Ready
  <1>6. q8k' \in Buffer /\ q8k'.bytes \in Sizes /\ q8k.bytes <= q8k'.bytes
    <2>1. h.q8k \in Buffer /\ h.q8k.bytes \in Sizes /\ q0.bytes <= h.q8k.bytes
      BY <1>3 DEF Ready, Host
    <2>2. q8k' = h.q8k /\ q8k.bytes <= q0.bytes /\ q0 \in Buffer
      BY DEF EagerRun
    <2>3. PICK a \in Nat : a = q8k.bytes
      BY DEF IInv, Typed, Buffer
    <2>4. PICK b \in Nat : b = q0.bytes
      BY <2>2 DEF Buffer
    <2>5. PICK d \in Nat : d = h.q8k.bytes
      BY <2>1 DEF Buffer
    <2>6. a <= d
      BY <2>1, <2>2, <2>3, <2>4, <2>5
    <2> QED
      BY <2>1, <2>2, <2>3, <2>5, <2>6
  <1>7. Fills(n, c, R)
    BY <1>1, <1>2, <1>3, <1>4, <1>5, <1>6 DEF Fills, EagerRun, Machine
  <1>8. Enough(config, q0.bytes) => q8k' = q0
    BY <1>3 DEF Ready, EagerRun
  <1> QED
    BY <1>5, <1>7, <1>8, FillsTyped

LEMMA RowAnswered ==
    ASSUME NEW n \in Nat \ {0}, NEW all \in BOOLEAN, NEW s
    PROVE  RowRead(n, all) \in RowsWritten(n, all, s)
  BY DEF RowRead, RowsWritten

LEMMA GrownFacts ==
    ASSUME IInv, NEW n \in 1 .. MaxSeqLen, NEW s, NEW g, Grown(n, s, g)
    PROVE  /\ s \in [gen : Nat, cap : 0 .. MaxSeqLen, oneRow : BOOLEAN] /\ s.gen \in Nat
           /\ g \in [built : BOOLEAN, failed : BOOLEAN, kernels : Seq(Kernel)]
           /\ IF g.built THEN graph.built /\ g = graph /\ s = scratch ELSE g.kernels = <<>>
  <1>1. scratch \in [gen : Nat, cap : 0 .. MaxSeqLen, oneRow : BOOLEAN]
        /\ graph \in [built : BOOLEAN, failed : BOOLEAN, kernels : Seq(Kernel)]
    BY DEF IInv, Typed
  <1>2. CASE scratch.cap >= n
    <2>1. s = scratch /\ g = graph
      BY <1>2 DEF Grown
    <2> QED
      BY <1>1, <2>1 DEF IInv, GraphRight
  <1>3. CASE ~(scratch.cap >= n)
    <2>1. g = NoGraph
      BY <1>3 DEF Grown
    <2>2. PICK one \in BOOLEAN : s = [gen |-> scratch.gen + 1, cap |-> n, oneRow |-> one]
      BY <1>3 DEF Grown
    <2>3. s \in [gen : Nat, cap : 0 .. MaxSeqLen, oneRow : BOOLEAN]
      <3>1. scratch.gen + 1 \in Nat /\ n \in 0 .. MaxSeqLen
        BY <1>1, SizesAssumption
      <3> QED
        BY <2>2, <3>1
    <2>4. <<>> \in Seq(Kernel)
      OBVIOUS
    <2> QED
      BY <2>1, <2>3, <2>4 DEF NoGraph
  <1> QED
    BY <1>2, <1>3

LEMMA ForwardEagerKeeps ==
    ASSUME IInv, CombineWrites, NEW n \in 1 .. MaxSeqLen, NEW all \in BOOLEAN, ForwardEager(n, all)
    PROVE  IInv'
  <1>1. PICK s, g :
          /\ Grown(n, s, g) /\ scratch' = s
          /\ graph' = [g EXCEPT !.failed = @ \/ Wanted(n, all, g)]
          /\ Eager(n, all, s)
    BY DEF ForwardEager
  <1>2. /\ kvPos + n <= MaxPos /\ UNCHANGED <<config, graphPos>> /\ n \in Nat \ {0}
    BY SizesAssumption DEF ForwardEager, Fits
  <1>3. /\ s \in [gen : Nat, cap : 0 .. MaxSeqLen, oneRow : BOOLEAN] /\ s.gen \in Nat
        /\ g \in [built : BOOLEAN, failed : BOOLEAN, kernels : Seq(Kernel)]
        /\ IF g.built THEN graph.built /\ g = graph /\ s = scratch ELSE g.kernels = <<>>
    BY <1>1, GrownFacts
  <1>4. PICK h : h = Enqueue(n, kvPos, q8k, FALSE, s.gen)
    OBVIOUS
  <1>5. PICK m0 : m0 = Fresh(rows)
    OBVIOUS
  <1>6. PICK m : m = Execute(m0, h.kernels, AsEnqueued(n, s.gen))
    OBVIOUS
  <1>7. EagerRun(n, s.gen, m0, q8k, h, m)
    <2>1. q8k' = h.q8k /\ rows' = m.rows /\ kvPos' = kvPos + n
      BY <1>1, <1>4, <1>5, <1>6 DEF Eager
    <2>2. m0 \in Machine /\ m0.good /\ m0.rows = rows
      BY <1>5, FreshMachine DEF IInv, Typed
    <2>3. AsEnqueued(n, s.gen).pos = kvPos
      BY DEF AsEnqueued
    <2>4. ContextIn(m0.rows, AsEnqueued(n, s.gen))
      BY <2>2, <2>3 DEF ContextIn, IInv, CacheMatchesPosition
    <2>5. q8k \in Buffer /\ q8k.bytes \in Sizes /\ q8k.bytes <= q8k.bytes
      BY DEF IInv, Typed, Buffer
    <2> QED
      BY <1>2, <1>3, <1>4, <1>6, <2>1, <2>2, <2>4, <2>5 DEF EagerRun
  <1>8. m.good /\ PassTyped' /\ (Enough(config, q8k.bytes) => q8k' = q8k)
    BY <1>7, EagerKeeps
  <1>9. answer' /\ answer' \in BOOLEAN
    <2>1. answer' = (m.good /\ RowRead(n, all) \in RowsWritten(n, all, s))
      BY <1>1, <1>4, <1>5, <1>6 DEF Eager
    <2> QED
      BY <1>2, <1>8, <2>1, RowAnswered
  <1>10. PICK w \in BOOLEAN : w = (g.failed \/ Wanted(n, all, g))
    OBVIOUS
  <1>11. graph' = [g EXCEPT !.failed = w]
    BY <1>1, <1>10
  <1>12. graph' \in [built : BOOLEAN, failed : BOOLEAN, kernels : Seq(Kernel)]
         /\ graph'.built = g.built /\ graph'.kernels = g.kernels
    BY <1>3, <1>11
  <1>13. GraphRight'
    <2>1. CASE g.built
      <3>1. graph.built /\ g = graph /\ s = scratch
        BY <1>3, <2>1
      <3>2. Enough(config, q8k.bytes) /\ Faithful(graph.kernels, q8k.gen, scratch.gen)
        BY <3>1 DEF IInv, GraphRight
      <3>3. q8k' = q8k /\ config' = config /\ scratch' = scratch /\ graph'.kernels = graph.kernels
            /\ graph'.built
        BY <1>1, <1>2, <1>8, <1>12, <2>1, <3>1, <3>2
      <3>4. Enough(config', q8k'.bytes) /\ Faithful(graph'.kernels, q8k'.gen, scratch'.gen)
        BY <3>2, <3>3
      <3> QED
        BY <3>3, <3>4 DEF GraphRight
    <2>2. CASE ~g.built
      <3>1. ~graph'.built /\ graph'.kernels = <<>>
        BY <1>3, <1>12, <2>2
      <3> QED
        BY <3>1 DEF GraphRight
    <2> QED
      BY <2>1, <2>2
  <1>14. graphPos' \in Positions
    BY <1>2 DEF IInv, Typed
  <1> QED
    BY <1>1, <1>3, <1>8, <1>9, <1>12, <1>13, <1>14 DEF IInv, Typed, PassTyped


\* What ensureGraphScratch leaves has room for a captured step.
LEMMA GraphScratchFacts ==
    ASSUME IInv, config.graph, NEW q0, q0 = GraphScratch
    PROVE  q0 \in Buffer /\ q0.bytes \in Sizes /\ q8k.bytes <= q0.bytes /\ Enough(config, q0.bytes)
  <1>1. config \in Configs /\ q8k \in Buffer /\ q8k.bytes \in Sizes
        /\ Enough(config, AtCapture(config, q8k.bytes))
    BY DEF IInv, Typed, Roomy
  <1>2. PICK b \in Nat : b = Q8K(config.hidden)
    BY <1>1, SizeFacts
  <1>3. b \in Sizes
    BY <1>2 DEF Sizes
  <1>4. q0 = IF q8k.bytes >= b THEN q8k ELSE [gen |-> q8k.gen + 1, bytes |-> b]
    BY <1>2 DEF GraphScratch, Ensured
  <1>5. q8k.gen + 1 \in Nat /\ q8k.bytes \in Nat
    BY <1>1 DEF Buffer
  <1>6. q0 \in Buffer /\ q0.bytes \in Sizes /\ q8k.bytes <= q0.bytes
    BY <1>1, <1>3, <1>4, <1>5 DEF Buffer
  <1>7. q0.bytes = AtCapture(config, q8k.bytes)
    BY <1>2, <1>4, <1>5 DEF AtCapture
  <1> QED
    BY <1>1, <1>6, <1>7

\* The graph's pass over the next token runs on memory the engine owns.
LEMMA OwnedNow ==
    ASSUME IInv, kvPos + 1 <= MaxPos, NEW buffer \in Nat, NEW scr \in Nat,
           NEW c, c = Recorded(kvPos, buffer, scr)
    PROVE  Owned(c, buffer, scr) /\ c \in Context /\ c.pos = kvPos /\ c.n = 1 /\ ContextIn(rows, c)
  <1>1. kvPos \in Nat /\ kvPos \in Int
    BY SizesAssumption DEF IInv, Typed
  <1>2. c \in Context /\ c.pos = kvPos /\ c.n = 1 /\ c.dev = kvPos /\ c.gens = {buffer} /\ c.scr = scr
    BY <1>1 DEF Recorded, Context
  <1>3. ContextIn(rows, c)
    BY <1>2, ContextFacts
  <1> QED
    BY <1>2, <1>3 DEF Owned

LEMMA CaptureKeeps ==
    ASSUME IInv, CombineWrites, Capture
    PROVE  IInv'
  <1>1. PICK s, g :
          /\ Grown(1, s, g) /\ ~g.built /\ scratch' = s
          /\ LET h == Enqueue(1, Device, GraphScratch, TRUE, s.gen)
                 m == Execute(Fresh(rows), h.kernels, Recorded(kvPos, h.q8k.gen, s.gen))
             IN /\ graph' = [g EXCEPT !.built = TRUE, !.kernels = h.kernels]
                /\ q8k' = h.q8k /\ rows' = m.rows /\ answer' = m.good
    BY DEF Capture
  <1>2. kvPos + 1 <= MaxPos /\ config.graph /\ graphPos' = kvPos /\ kvPos' = kvPos + 1 /\ config' = config
    BY DEF Capture, Fits
  <1>3. 1 \in 1 .. MaxSeqLen
    BY SizesAssumption
  <1>4. /\ s \in [gen : Nat, cap : 0 .. MaxSeqLen, oneRow : BOOLEAN] /\ s.gen \in Nat
        /\ g \in [built : BOOLEAN, failed : BOOLEAN, kernels : Seq(Kernel)]
    BY <1>1, <1>3, GrownFacts
  <1>5. PICK q0 : q0 = GraphScratch
    OBVIOUS
  <1>6. q0 \in Buffer /\ q0.bytes \in Sizes /\ q8k.bytes <= q0.bytes /\ Enough(config, q0.bytes)
    BY <1>2, <1>5, GraphScratchFacts
  <1>7. PICK h : h = Enqueue(1, Device, q0, TRUE, s.gen)
    OBVIOUS
  <1>8. PICK yes \in BOOLEAN : yes = TRUE
    OBVIOUS
  <1>9. h = Enqueue(1, Device, q0, yes, s.gen)
    BY <1>7, <1>8
  <1>10. h.q8k = q0 /\ Faithful(h.kernels, q0.gen, s.gen)
    BY <1>4, <1>6, <1>8, <1>9, CapturedFaithful
  <1>11. q0.gen \in Nat
    BY <1>6 DEF Buffer
  <1>12. PICK c : c = Recorded(kvPos, q0.gen, s.gen)
    OBVIOUS
  <1>13. Owned(c, q0.gen, s.gen) /\ c \in Context /\ c.pos = kvPos /\ c.n = 1 /\ ContextIn(rows, c)
    BY <1>2, <1>4, <1>11, <1>12, OwnedNow
  <1>14. rows \in AllRows
    BY DEF IInv, Typed
  <1>15. PICK m : m = Execute(Fresh(rows), h.kernels, c)
    OBVIOUS
  <1>16. m \in Machine /\ m.good /\ m.rows = Filled(rows, NumLayers, c)
    BY <1>10, <1>13, <1>14, <1>15 DEF Faithful, Computes
  <1>17. graph' = [g EXCEPT !.built = TRUE, !.kernels = h.kernels]
         /\ q8k' = q0 /\ rows' = m.rows /\ answer' = m.good
    BY <1>1, <1>5, <1>7, <1>10, <1>12, <1>15
  <1>18. Fills(1, c, rows)
    BY <1>2, <1>6, <1>13, <1>14, <1>16, <1>17 DEF Fills
  <1>19. PassTyped'
    BY <1>18, FillsTyped
  <1>20. h.kernels \in Seq(Kernel)
    BY <1>10 DEF Faithful
  <1>21. graph' = [g EXCEPT !.built = yes, !.kernels = h.kernels]
    BY <1>17, <1>8
  <1>22. graph' \in [built : BOOLEAN, failed : BOOLEAN, kernels : Seq(Kernel)]
         /\ graph'.built /\ graph'.kernels = h.kernels
    BY <1>4, <1>20, <1>8, <1>21
  <1>23. GraphRight'
    <2>1. Enough(config', q8k'.bytes) /\ Faithful(graph'.kernels, q8k'.gen, scratch'.gen)
      BY <1>1, <1>2, <1>6, <1>10, <1>17, <1>22
    <2> QED
      BY <1>22, <2>1 DEF GraphRight
  <1>24. graphPos' \in Positions
    BY <1>2, SizesAssumption DEF IInv, Typed, Positions
  <1>25. answer' /\ answer' \in BOOLEAN
    BY <1>16, <1>17 DEF Machine
  <1> QED
    BY <1>1, <1>4, <1>19, <1>22, <1>23, <1>24, <1>25 DEF IInv, Typed, PassTyped

LEMMA CaptureRefusedKeeps ==
    ASSUME IInv, CombineWrites, CaptureRefused
    PROVE  IInv'
  <1>1. kvPos + 1 <= MaxPos /\ config.graph /\ ~graph.built /\ kvPos' = kvPos + 1
        /\ graphPos' \in {graphPos, kvPos} /\ UNCHANGED <<config, scratch>>
    BY DEF CaptureRefused, Fits
  <1>2. PICK q0 : q0 = GraphScratch
    OBVIOUS
  <1>3. q0 \in Buffer /\ q0.bytes \in Sizes /\ q8k.bytes <= q0.bytes
    BY <1>1, <1>2, GraphScratchFacts
  <1>4. PICK h : h = Enqueue(1, kvPos, q0, FALSE, scratch.gen)
    OBVIOUS
  <1>5. PICK m0 : m0 = Fresh(rows)
    OBVIOUS
  <1>6. PICK m : m = Execute(m0, h.kernels, AsEnqueued(1, scratch.gen))
    OBVIOUS
  <1>7. q8k' = h.q8k /\ rows' = m.rows /\ answer' = m.good
    BY <1>2, <1>4, <1>5, <1>6 DEF CaptureRefused
  <1>8. EagerRun(1, scratch.gen, m0, q0, h, m)
    <2>1. m0 \in Machine /\ m0.good /\ m0.rows = rows
      BY <1>5, FreshMachine DEF IInv, Typed
    <2>2. AsEnqueued(1, scratch.gen).pos = kvPos
      BY DEF AsEnqueued
    <2>3. ContextIn(m0.rows, AsEnqueued(1, scratch.gen))
      BY <2>1, <2>2 DEF ContextIn, IInv, CacheMatchesPosition
    <2>4. scratch.gen \in Nat
      BY DEF IInv, Typed
    <2> QED
      BY <1>1, <1>3, <1>4, <1>6, <1>7, <2>1, <2>3, <2>4 DEF EagerRun
  <1>9. m.good /\ m \in Machine /\ PassTyped'
    BY <1>8, EagerKeeps
  <1>10. graph \in [built : BOOLEAN, failed : BOOLEAN, kernels : Seq(Kernel)] /\ graph.kernels = <<>>
    BY <1>1 DEF IInv, Typed, GraphRight
  <1>11. PICK yes \in BOOLEAN : yes = TRUE
    OBVIOUS
  <1>12. graph' = [graph EXCEPT !.failed = yes]
    BY <1>11 DEF CaptureRefused
  <1>13. graph' \in [built : BOOLEAN, failed : BOOLEAN, kernels : Seq(Kernel)]
         /\ ~graph'.built /\ graph'.kernels = <<>>
    BY <1>1, <1>10, <1>12
  <1>14. GraphRight'
    BY <1>13 DEF GraphRight
  <1>15. graphPos' \in Positions
    BY <1>1, SizesAssumption DEF IInv, Typed, Positions
  <1>16. answer' /\ answer' \in BOOLEAN
    BY <1>7, <1>9 DEF Machine
  <1>17. scratch' \in [gen : Nat, cap : 0 .. MaxSeqLen, oneRow : BOOLEAN]
    BY <1>1 DEF IInv, Typed
  <1> QED
    BY <1>9, <1>13, <1>14, <1>15, <1>16, <1>17 DEF IInv, Typed, PassTyped

\* A pass from a graph that is built.
LEMMA ReplayComputes ==
    ASSUME IInv, graph.built, kvPos + 1 <= MaxPos,
           NEW c, c = Recorded(kvPos, q8k.gen, scratch.gen)
    PROVE  c \in Context /\ c.pos = kvPos /\ c.n = 1 /\ ContextIn(rows, c)
           /\ Owned(c, q8k.gen, scratch.gen) /\ Computes(graph.kernels, c, rows)
  <1>1. q8k.gen \in Nat /\ scratch.gen \in Nat /\ rows \in AllRows
    BY DEF IInv, Typed, Buffer
  <1>2. Owned(c, q8k.gen, scratch.gen) /\ c \in Context /\ c.pos = kvPos /\ c.n = 1
        /\ ContextIn(rows, c)
    BY <1>1, OwnedNow
  <1>3. Computes(graph.kernels, c, rows)
    BY <1>1, <1>2 DEF IInv, GraphRight, Faithful
  <1> QED
    BY <1>2, <1>3

LEMMA ReplayKeeps ==
    ASSUME IInv, Replay
    PROVE  IInv'
  <1>1. kvPos + 1 <= MaxPos /\ graph.built /\ graphPos' = kvPos /\ kvPos' = kvPos + 1
        /\ UNCHANGED <<config, q8k, scratch, graph>>
    BY DEF Replay, Fits
  <1>2. PICK c : c = Recorded(kvPos, q8k.gen, scratch.gen)
    OBVIOUS
  <1>3. PICK m : m = Execute(Fresh(rows), graph.kernels, c)
    OBVIOUS
  <1>4. rows' = m.rows /\ answer' = m.good
    BY <1>2, <1>3 DEF Replay
  <1>5. c \in Context /\ c.pos = kvPos /\ c.n = 1 /\ ContextIn(rows, c)
        /\ Computes(graph.kernels, c, rows)
    BY <1>1, <1>2, ReplayComputes
  <1>6. m \in Machine /\ m.good /\ m.rows = Filled(rows, NumLayers, c)
    BY <1>3, <1>5 DEF Computes
  <1>7. Fills(1, c, rows)
    <2>1. q8k' \in Buffer /\ q8k'.bytes \in Sizes /\ q8k.bytes <= q8k'.bytes /\ rows \in AllRows
      BY <1>1 DEF IInv, Typed, Buffer
    <2> QED
      BY <1>1, <1>4, <1>5, <1>6, <2>1 DEF Fills
  <1>8. PassTyped'
    BY <1>7, FillsTyped
  <1>9. GraphRight'
    BY <1>1 DEF IInv, GraphRight
  <1>10. graphPos' \in Positions
    BY <1>1, SizesAssumption DEF IInv, Typed, Positions
  <1>11. answer' /\ answer' \in BOOLEAN
    BY <1>4, <1>6 DEF Machine
  <1> QED
    BY <1>1, <1>8, <1>9, <1>10, <1>11 DEF IInv, Typed, PassTyped

LEMMA ReplayFailsKeeps ==
    ASSUME IInv, CombineWrites, NEW ran \in 0 .. Len(graph.kernels), ReplayFails(ran)
    PROVE  IInv'
  <1>1. kvPos + 1 <= MaxPos /\ graph.built /\ graphPos' = kvPos /\ kvPos' = kvPos + 1
        /\ UNCHANGED <<config, scratch>>
    BY DEF ReplayFails, Fits
  <1>2. PICK c : c = Recorded(kvPos, q8k.gen, scratch.gen)
    OBVIOUS
  <1>3. PICK ks : ks = SubSeq(graph.kernels, 1, ran)
    OBVIOUS
  <1>4. PICK first : first = Execute(Fresh(rows), ks, c)
    OBVIOUS
  <1>5. PICK yes \in BOOLEAN : yes = TRUE
    OBVIOUS
  <1>6. PICK m0 : m0 = [first EXCEPT !.good = yes]
    OBVIOUS
  <1>7. PICK h : h = Enqueue(1, kvPos, q8k, FALSE, scratch.gen)
    OBVIOUS
  <1>8. PICK m : m = Execute(m0, h.kernels, AsEnqueued(1, scratch.gen))
    OBVIOUS
  <1>9. q8k' = h.q8k /\ rows' = m.rows /\ answer' = m.good
    BY <1>2, <1>3, <1>4, <1>5, <1>6, <1>7, <1>8 DEF ReplayFails
  <1>10. c \in Context /\ c.pos = kvPos /\ c.n = 1 /\ ContextIn(rows, c)
         /\ Owned(c, q8k.gen, scratch.gen)
    BY <1>1, <1>2, ReplayComputes
  <1>11. first \in Machine /\ ContextIn(first.rows, c)
    <2>1. ran \in Nat /\ graph.kernels \in Seq(Kernel) /\ ran <= Len(graph.kernels)
      BY DEF IInv, Typed
    <2>2. DOMAIN ks = 1 .. ran /\ \A i \in 1 .. ran : ks[i] = graph.kernels[i] /\ ks[i] \in Kernel
                                                     /\ i \in 1 .. Len(graph.kernels)
      BY <1>3, <2>1
    <2>3. Faithful(graph.kernels, q8k.gen, scratch.gen)
      BY <1>1 DEF IInv, GraphRight
    <2>4. \A i \in 1 .. Len(graph.kernels) :
             (IF graph.kernels[i].at = Device THEN c.dev ELSE graph.kernels[i].at) = c.pos
      BY <1>10, <2>3 DEF Faithful
    <2>5. \A i \in 1 .. ran :
             ks[i] \in Kernel /\ (IF ks[i].at = Device THEN c.dev ELSE ks[i].at) = c.pos
      BY <2>2, <2>4
    <2>6. PICK f \in Machine : f = Fresh(rows) /\ f.rows = rows
      BY FreshMachine DEF IInv, Typed
    <2>7. c.pos + c.n <= MaxPos
      BY <1>1, <1>10
    <2> QED
      BY <1>4, <1>10, <2>1, <2>2, <2>5, <2>6, <2>7, ExecuteKeeps
  <1>12. m0 \in Machine /\ m0.good /\ m0.rows = first.rows
    BY <1>5, <1>6, <1>11 DEF Machine
  <1>13. EagerRun(1, scratch.gen, m0, q8k, h, m)
    <2>1. AsEnqueued(1, scratch.gen).pos = c.pos
      BY <1>10 DEF AsEnqueued
    <2>2. ContextIn(m0.rows, AsEnqueued(1, scratch.gen))
      BY <1>11, <1>12, <2>1 DEF ContextIn
    <2>3. q8k \in Buffer /\ q8k.bytes \in Sizes /\ q8k.bytes <= q8k.bytes /\ scratch.gen \in Nat
      BY DEF IInv, Typed, Buffer
    <2> QED
      BY <1>1, <1>7, <1>8, <1>9, <1>12, <2>2, <2>3 DEF EagerRun
  <1>14. m.good /\ m \in Machine /\ PassTyped' /\ (Enough(config, q8k.bytes) => q8k' = q8k)
    BY <1>13, EagerKeeps
  <1>15. Enough(config, q8k.bytes) /\ Faithful(graph.kernels, q8k.gen, scratch.gen)
    BY <1>1 DEF IInv, GraphRight
  <1>16. graph' = [graph EXCEPT !.failed = yes]
    BY <1>5 DEF ReplayFails
  <1>17. graph' \in [built : BOOLEAN, failed : BOOLEAN, kernels : Seq(Kernel)]
         /\ graph'.built /\ graph'.kernels = graph.kernels
    BY <1>1, <1>16 DEF IInv, Typed
  <1>18. GraphRight'
    <2>1. Enough(config', q8k'.bytes) /\ Faithful(graph'.kernels, q8k'.gen, scratch'.gen)
      BY <1>1, <1>14, <1>15, <1>17
    <2> QED
      BY <1>17, <2>1 DEF GraphRight
  <1>19. graphPos' \in Positions
    BY <1>1, SizesAssumption DEF IInv, Typed, Positions
  <1>20. answer' /\ answer' \in BOOLEAN
    BY <1>9, <1>14 DEF Machine
  <1>21. scratch' \in [gen : Nat, cap : 0 .. MaxSeqLen, oneRow : BOOLEAN]
    BY <1>1 DEF IInv, Typed
  <1> QED
    BY <1>14, <1>17, <1>18, <1>19, <1>20, <1>21 DEF IInv, Typed, PassTyped

LEMMA ClearKeeps ==
    ASSUME IInv, Clear
    PROVE  IInv'
  <1>1. kvPos' = 0 /\ rows' = NoRows /\ UNCHANGED <<config, q8k, scratch, graph, graphPos, answer>>
    BY DEF Clear
  <1>2. NoRows \in AllRows /\ 0 \in 0 .. MaxPos
    BY SizesAssumption DEF NoRows, AllRows
  <1>3. CacheMatchesPosition'
    BY <1>1 DEF CacheMatchesPosition
  <1>4. Typed'
    BY <1>1, <1>2 DEF IInv, Typed, Sizes
  <1>5. Roomy' /\ GraphRight'
    BY <1>1 DEF IInv, Roomy, GraphRight
  <1> QED
    BY <1>3, <1>4, <1>5 DEF IInv

LEMMA StutterKeeps ==
    ASSUME IInv, UNCHANGED vars
    PROVE  IInv'
  <1>1. UNCHANGED <<config, kvPos, rows, q8k, scratch, graph, graphPos, answer>>
    BY DEF vars
  <1>2. Typed'
    BY <1>1 DEF IInv, Typed, Sizes
  <1>3. CacheMatchesPosition'
    BY <1>1 DEF IInv, CacheMatchesPosition
  <1>4. Roomy' /\ GraphRight'
    BY <1>1 DEF IInv, Roomy, GraphRight
  <1> QED
    BY <1>2, <1>3, <1>4 DEF IInv

LEMMA InitRight ==
    ASSUME RoomForGraph, Init
    PROVE  IInv
  <1>1. config \in Configs /\ kvPos = 0 /\ rows = NoRows /\ graph = NoGraph /\ graphPos = 0
        /\ answer = TRUE
    BY DEF Init
  <1>2. config.warm \in BOOLEAN /\ Q81(config.inter) \in Nat
    BY <1>1, ConfigFacts, SizeFacts
  <1>3. q8k.bytes = (IF config.warm THEN Q81(config.inter) ELSE 0) /\ q8k \in Buffer
        /\ q8k.bytes \in Sizes
    BY <1>2 DEF Init, Buffer, Sizes
  <1>4. Roomy
    BY <1>1, <1>3 DEF Roomy, RoomForGraph, HasRoom
  <1>5. NoRows \in AllRows /\ 0 \in 0 .. MaxPos /\ 0 \in Positions
    BY SizesAssumption DEF NoRows, AllRows, Positions
  <1>6. PICK no \in BOOLEAN : no = FALSE
    OBVIOUS
  <1>7. scratch \in [gen : Nat, cap : 0 .. MaxSeqLen, oneRow : BOOLEAN]
    <2>1. 1 \in 0 .. MaxSeqLen /\ 0 \in 0 .. MaxSeqLen /\ 0 \in Nat /\ 1 \in Nat
      BY SizesAssumption
    <2>2. CASE config.warm
      <3>1. scratch = [gen |-> 1, cap |-> 1, oneRow |-> no]
        BY <1>6, <2>2 DEF Init
      <3> QED
        BY <2>1, <3>1
    <2>3. CASE ~config.warm
      <3>1. scratch = [gen |-> 0, cap |-> 0, oneRow |-> no]
        BY <1>6, <2>3 DEF Init
      <3> QED
        BY <2>1, <3>1
    <2> QED
      BY <2>2, <2>3
  <1>8. graph \in [built : BOOLEAN, failed : BOOLEAN, kernels : Seq(Kernel)]
        /\ ~graph.built /\ graph.kernels = <<>>
    <2>1. <<>> \in Seq(Kernel)
      OBVIOUS
    <2> QED
      BY <1>1, <2>1 DEF NoGraph
  <1>9. CacheMatchesPosition
    BY <1>1 DEF CacheMatchesPosition
  <1>10. GraphRight
    BY <1>8 DEF GraphRight
  <1>11. Typed
    BY <1>1, <1>3, <1>5, <1>7, <1>8 DEF Typed
  <1> QED
    BY <1>4, <1>9, <1>10, <1>11 DEF IInv

LEMMA NextKeeps ==
    ASSUME IInv, CombineWrites, [Next]_vars
    PROVE  IInv'
  BY ForwardEagerKeeps, CaptureKeeps, CaptureRefusedKeeps, ReplayKeeps, ReplayFailsKeeps,
     ClearKeeps, StutterKeeps DEF Next

-----------------------------------------------------------------------------
(* What the invariant says.                                                *)

LEMMA IInvTypes ==
    ASSUME IInv
    PROVE  TypeOK
  <1>1. q8k \in [gen : Nat, bytes : Sizes]
    BY DEF IInv, Typed, Buffer
  <1>2. graph.built <=> graph.kernels # <<>>
    BY DEF IInv, GraphRight, Faithful
  <1>3. graph.built \in BOOLEAN /\ graph.failed \in BOOLEAN
    BY DEF IInv, Typed
  <1> QED
    BY <1>1, <1>2, <1>3 DEF TypeOK, Sizes, IInv, Typed, AllRows

LEMMA IInvLive ==
    ASSUME IInv
    PROVE  GraphBuffersLive
  <1>1. SUFFICES ASSUME graph.built, NEW i \in DOMAIN graph.kernels
                 PROVE  /\ Live(graph.kernels[i], Recorded(kvPos, q8k.gen, scratch.gen))
                        /\ graph.kernels[i].op = "put" => graph.kernels[i].fits
    BY DEF GraphBuffersLive
  <1>2. Faithful(graph.kernels, q8k.gen, scratch.gen)
    BY <1>1 DEF IInv, GraphRight
  <1>3. i \in 1 .. Len(graph.kernels)
    BY <1>1 DEF IInv, Typed
  <1> QED
    BY <1>2, <1>3 DEF Faithful, Live, Recorded

LEMMA IInvReplay ==
    ASSUME IInv, CombineWrites
    PROVE  ReplayEqualsEager
  <1>1. SUFFICES ASSUME graph.built, kvPos + 1 <= MaxPos,
                        NEW r, r = Execute(Fresh(rows), graph.kernels,
                                           Recorded(kvPos, q8k.gen, scratch.gen)),
                        NEW e, e = Execute(Fresh(rows),
                                           Enqueue(1, kvPos, q8k, FALSE, scratch.gen).kernels,
                                           AsEnqueued(1, scratch.gen))
                 PROVE  r.rows = e.rows /\ r.good = e.good
    BY DEF ReplayEqualsEager, Fits
  <1>2. PICK c : c = Recorded(kvPos, q8k.gen, scratch.gen)
    OBVIOUS
  <1>3. c.pos = kvPos /\ c.n = 1 /\ ContextIn(rows, c) /\ Computes(graph.kernels, c, rows)
    BY <1>1, <1>2, ReplayComputes
  <1>4. r \in Machine /\ r.good /\ r.rows = Filled(rows, NumLayers, c)
    BY <1>1, <1>2, <1>3 DEF Computes
  <1>5. PICK d : d = AsEnqueued(1, scratch.gen)
    OBVIOUS
  <1>6. d.pos = kvPos /\ d.n = 1
    BY <1>5 DEF AsEnqueued
  <1>7. PICK h : h = Enqueue(1, kvPos, q8k, FALSE, scratch.gen)
    OBVIOUS
  <1>8. PICK m \in Machine : m = Fresh(rows) /\ m.good /\ m.rows = rows
    BY FreshMachine DEF IInv, Typed
  <1>9. Ready(h, d, m, q8k, Filled(m.rows, NumLayers, d))
    <2>1. q8k \in Buffer /\ q8k.bytes \in Sizes /\ scratch.gen \in Nat
      BY DEF IInv, Typed
    <2>2. ContextIn(m.rows, d)
      BY <1>3, <1>6, <1>8 DEF ContextIn
    <2>3. PICK n \in Nat \ {0} : n = 1
      OBVIOUS
    <2>4. PICK scr \in Nat : scr = scratch.gen
      BY <2>1
    <2>5. kvPos + n <= MaxPos /\ d = AsEnqueued(n, scr) /\ h = Enqueue(n, kvPos, q8k, FALSE, scr)
      BY <1>1, <1>5, <1>7, <2>3, <2>4
    <2> QED
      BY <1>8, <2>1, <2>2, <2>5, EagerPass
  <1>10. e = Execute(m, h.kernels, d)
    BY <1>1, <1>5, <1>7, <1>8
  <1>11. e \in Machine /\ e.good /\ e.rows = Filled(rows, NumLayers, d)
    BY <1>8, <1>9, <1>10 DEF Ready
  <1>12. Filled(rows, NumLayers, c) = Filled(rows, NumLayers, d)
    BY <1>3, <1>6, FilledSame
  <1> QED
    BY <1>4, <1>11, <1>12 DEF Machine

LEMMA KeptContext ==
    ASSUME IInv, IInv', kvPos' >= kvPos
    PROVE  \A l \in Layers, p \in 0 .. kvPos - 1 : rows'[l][p] = rows[l][p]
  <1>1. SUFFICES ASSUME NEW l \in Layers, NEW p \in 0 .. kvPos - 1
                 PROVE  rows'[l][p] = rows[l][p]
    OBVIOUS
  <1>2. kvPos \in 0 .. MaxPos /\ kvPos' \in 0 .. MaxPos /\ rows \in AllRows /\ rows' \in AllRows
    BY DEF IInv, Typed, AllRows
  <1>3. p \in Positions /\ p \in 0 .. kvPos' - 1
    <2>1. PICK a \in Nat : a = kvPos'
      BY <1>2
    <2>2. PICK b \in Nat : b = kvPos /\ b <= MaxPos
      BY <1>2, SizesAssumption
    <2>3. a >= b /\ p \in 0 .. b - 1
      BY <2>1, <2>2
    <2>4. p \in 0 .. MaxPos - 1 /\ p \in 0 .. a - 1
      BY <2>2, <2>3, SizesAssumption
    <2> QED
      BY <2>1, <2>4 DEF Positions
  <1>4. rows[l][p] /\ rows'[l][p]
    BY <1>3 DEF IInv, CacheMatchesPosition
  <1>5. rows[l][p] \in BOOLEAN /\ rows'[l][p] \in BOOLEAN
    BY <1>2, <1>3 DEF AllRows
  <1> QED
    BY <1>4, <1>5

-----------------------------------------------------------------------------
(* The theorems.                                                           *)

\* The strengthening of all of them: whatever passes have run, the buffer has
\* room for what a capture would record, and a recorded graph computes a token
\* at any position on the memory that the engine owns now.
THEOREM Invariant ==
    RoomForGraph /\ CombineWrites => (Spec => []IInv)
  <1> SUFFICES ASSUME RoomForGraph, CombineWrites
               PROVE  Spec => []IInv
    OBVIOUS
  <1>1. Init => IInv
    BY InitRight
  <1>2. IInv /\ [Next]_vars => IInv'
    BY NextKeeps
  <1> QED
    BY <1>1, <1>2, PTL DEF Spec

\* The state has its types: the activation buffer never has another size than
\* one of those the matrices ask for, and a graph is built or has no kernels.
THEOREM TypeCorrect ==
    RoomForGraph /\ CombineWrites => (Spec => []TypeOK)
  <1> SUFFICES ASSUME RoomForGraph, CombineWrites
               PROVE  Spec => []TypeOK
    OBVIOUS
  <1>1. Spec => []IInv
    BY Invariant
  <1>2. IInv => TypeOK
    BY IInvTypes
  <1> QED
    BY <1>1, <1>2, PTL

\* Every pass of GPUModel::forward that returns success answers with the logits
\* of exactly its tokens and those before them, in the row its caller reads.
THEOREM LogitsRight ==
    RoomForGraph /\ CombineWrites => (Spec => []LogitsOfContext)
  <1> SUFFICES ASSUME RoomForGraph, CombineWrites
               PROVE  Spec => []LogitsOfContext
    OBVIOUS
  <1>1. Spec => []IInv
    BY Invariant
  <1>2. IInv => LogitsOfContext
    BY DEF IInv, Typed, LogitsOfContext
  <1> QED
    BY <1>1, <1>2, PTL

\* The K/V rows below kvPos_ are the session's in every layer, after passes of
\* any kind in any order, replays that stopped half way included.
THEOREM CacheInStep ==
    RoomForGraph /\ CombineWrites => (Spec => []CacheMatchesPosition)
  <1> SUFFICES ASSUME RoomForGraph, CombineWrites
               PROVE  Spec => []CacheMatchesPosition
    OBVIOUS
  <1>1. Spec => []IInv
    BY Invariant
  <1>2. IInv => CacheMatchesPosition
    BY DEF IInv
  <1> QED
    BY <1>1, <1>2, PTL

\* A graph that is built names no q8k_ and no scratch_ that was freed, and no
\* kernel of it writes more than the buffer holds.
THEOREM BuffersLive ==
    RoomForGraph /\ CombineWrites => (Spec => []GraphBuffersLive)
  <1> SUFFICES ASSUME RoomForGraph, CombineWrites
               PROVE  Spec => []GraphBuffersLive
    OBVIOUS
  <1>1. Spec => []IInv
    BY Invariant
  <1>2. IInv => GraphBuffersLive
    BY IInvLive
  <1> QED
    BY <1>1, <1>2, PTL

\* What the graph would do with the next token is what the eager body would do.
THEOREM ReplayIsEager ==
    RoomForGraph /\ CombineWrites => (Spec => []ReplayEqualsEager)
  <1> SUFFICES ASSUME RoomForGraph, CombineWrites
               PROVE  Spec => []ReplayEqualsEager
    OBVIOUS
  <1>1. Spec => []IInv
    BY Invariant
  <1>2. IInv => ReplayEqualsEager
    BY IInvReplay
  <1> QED
    BY <1>1, <1>2, PTL

\* No pass rewrites the K/V row of an earlier token.
THEOREM RowsKept ==
    RoomForGraph /\ CombineWrites => (Spec => ContextKept)
  <1> SUFFICES ASSUME RoomForGraph, CombineWrites
               PROVE  Spec => ContextKept
    OBVIOUS
  <1>1. Spec => []IInv
    BY Invariant
  <1>2. IInv /\ IInv' => [kvPos' >= kvPos =>
           \A l \in Layers, p \in 0 .. kvPos - 1 : rows'[l][p] = rows[l][p]]_vars
    BY KeptContext
  <1> QED
    BY <1>1, <1>2, PTL DEF ContextKept
=============================================================================
