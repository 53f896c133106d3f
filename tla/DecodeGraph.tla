---------------------------- MODULE DecodeGraph -----------------------------
(***************************************************************************)
(* GPUModel::forward for the dense architecture under full offload         *)
(* (GPUComputeForward.cu): the eager passes, and the decode step that is   *)
(* captured once as a CUDA graph and replayed afterwards.                  *)
(*                                                                         *)
(* What the host does while it enqueues (growing the activation buffer     *)
(* q8k_, choosing who quantizes an activation) happens once, at capture;   *)
(* the kernels run at every replay, with the addresses they were recorded  *)
(* with and the position they find in graphPos_.  A pass is one action:    *)
(* the host enqueues a list of kernels, the device runs a list of kernels. *)
(* An address is the number of the allocation it came from.                *)
(*                                                                         *)
(* Not modelled: arithmetic; allocations, launches and synchronisations    *)
(* that fail on the eager path (the host then leaves the engine for good); *)
(* a capture that fails after it began; the persistent and the fp16 FFN.   *)
(***************************************************************************)
EXTENDS Integers, Sequences, SequencesExt

CONSTANTS
    Configs,     \* matrix kinds, widths in blocks of 256, and switches
    NumLayers,
    MaxPos,      \* bound: tokens of a session
    MaxSeqLen    \* bound: tokens of a pass

Layers == 1 .. NumLayers
Positions == 0 .. MaxPos - 1
Kinds == {"q81", "q8k", "float"}   \* the activation a GEMV wants
Device == -1                       \* the position is read from graphPos_

ASSUME ConfigsAssumption ==
    Configs \subseteq [qkv : Kinds \cup {"fused"}, attnO : Kinds, gateUp : Kinds,
                       down : Kinds, head : Kinds, hidden : Nat, inter : Nat,
                       fold : BOOLEAN, dp4a : BOOLEAN, split : BOOLEAN,
                       graph : BOOLEAN, warm : BOOLEAN]
ASSUME SizesAssumption == /\ NumLayers \in Nat \ {0} /\ MaxPos \in Nat \ {0}
                          /\ MaxSeqLen \in Nat \ {0}

VARIABLES
    config,
    kvPos,      \* kvPos_: tokens in the device's K/V cache
    rows,       \* per layer and position: the K/V row is the token's
    q8k,        \* q8k_ and q8kBytes_: the allocation and its size
    scratch,    \* scratch_: the allocation, seqCap, logitsCapOneRow_
    graph,      \* graphBuilt_, graphCaptureFailed_, the recorded kernels
    graphPos,   \* *graphPos_
    answer      \* of the last pass: what the caller finds in its row

vars == <<config, kvPos, rows, q8k, scratch, graph, graphPos, answer>>

Q81(blocks) == blocks * 320   \* eight blocks of kQ8_1_STRIDE
Q8K(blocks) == blocks * 304   \* kQ8K_STRIDE

NoGraph == [built |-> FALSE, failed |-> FALSE, kernels |-> <<>>]
NoRows == [l \in Layers |-> [p \in Positions |-> FALSE]]

\* An engine fresh from the upload, or (warm) one that has run a decode step
\* eagerly, with all logits asked for, and was cleared.
Init ==
    /\ config \in Configs
    /\ kvPos = 0 /\ rows = NoRows
    /\ q8k = IF config.warm THEN [gen |-> 1, bytes |-> Q81(config.inter)]
             ELSE [gen |-> 0, bytes |-> 0]
    /\ scratch = IF config.warm THEN [gen |-> 1, cap |-> 1, oneRow |-> FALSE]
                 ELSE [gen |-> 0, cap |-> 0, oneRow |-> FALSE]
    /\ graph = NoGraph /\ graphPos = 0
    /\ answer = TRUE

-----------------------------------------------------------------------------
(* The host: what it enqueues.  h is its state: the buffer, the kernels so  *)
(* far, whether a producer has already quantized the next GEMV's input.    *)

\* Slip: the buffer grows by what is needed instead of to it.
EnsuredMore(buffer, bytes) ==
    IF buffer.bytes >= bytes THEN buffer
    ELSE [gen |-> buffer.gen + 1, bytes |-> buffer.bytes + bytes]

Ensured(buffer, bytes) ==
    IF buffer.bytes >= bytes THEN buffer ELSE [gen |-> buffer.gen + 1, bytes |-> bytes]
Ensure(h, bytes) == [h EXCEPT !.q8k = Ensured(@, bytes)]

\* A kernel of a layer (0: none) is recorded with the addresses of the moment.
Launch(h, op, layer, what, fits) ==
    [h EXCEPT !.kernels = Append(@, [op |-> op, layer |-> layer, what |-> what, fits |-> fits,
                                     at |-> h.at, gen |-> h.q8k.gen, scr |-> h.scr])]

\* An activation is quantized into the buffer, and read from it.
Put(h, layer, what, bytes) == Launch(h, "put", layer, what, bytes <= h.q8k.bytes)
Get(h, layer, what) == Launch(h, "get", layer, what, TRUE)

\* An RMSNorm also quantizes its row when the buffer is large enough.
Norm(h, layer, what, wanted) ==
    IF wanted /\ h.q8k.bytes >= Q81(config.hidden)
    THEN [Put(h, layer, what, Q81(config.hidden)) EXCEPT !.pre = TRUE]
    ELSE [h EXCEPT !.pre = FALSE]

\* launchQGemv, launchQGemvResid, launchQGemvFusedGU: quantize unless the
\* producer has, growing the buffer first.
Gemv(h, layer, what, kind, blocks) ==
    LET own == IF kind = "q81" THEN Q81(blocks) ELSE Q8K(blocks)
    IN CASE kind = "float" -> h
         [] kind = "q81" /\ h.pre -> Get(h, layer, what)
         [] OTHER -> Get(Put(Ensure(h, own), layer, what, own), layer, what)

\* Q, K and V: in one launch, which reads the row that Norm has quantized, or
\* one by one.
Qkv(h, layer) ==
    IF config.qkv # "fused" THEN Gemv([h EXCEPT !.pre = FALSE], layer, "norm", config.qkv,
                                      config.hidden)
    ELSE IF h.pre THEN Get(h, layer, "norm") ELSE h

\* The combine kernel of the split attention quantizes its output: into a
\* buffer that is large enough, or is made so unless a capture is running, or
\* into whatever buffer there is.
Combine(h, layer) ==
    LET need == Q81(config.hidden)
        g == IF h.capturing THEN h ELSE Ensure(h, need)
    IN IF ~config.fold THEN [h EXCEPT !.pre = FALSE]
       ELSE IF g.q8k.gen = 0 THEN [g EXCEPT !.pre = FALSE]
       ELSE [(IF config.split THEN Put(g, layer, "attn", need) ELSE g) EXCEPT !.pre = TRUE]

Wide == config.hidden = 6     \* H == 1536

\* A layer of a decode step.
DecodeLayer(h, l) ==
    LET n1 == Norm(h, l, "norm", config.fold /\ config.dp4a /\ Wide)
        st == Launch(Qkv(n1, l), "store", l, "kv", TRUE)
        ao == Launch(st, "attend", l, "kv", TRUE)
        re == Gemv(Combine(ao, l), l, "attn", config.attnO, config.hidden)
        n2 == Norm(re, l, "ffn", config.fold /\ Wide)
        gu == Gemv(n2, l, "ffn", config.gateUp, config.hidden)
    IN Gemv([gu EXCEPT !.pre = FALSE], l, "gate", config.down, config.inter)

\* A layer of a batch: fp16 GEMMs, no quantized activations.
BatchLayer(h, l) ==
    Launch(Launch(h, "store", l, "kv", TRUE), "attend", l, "kv", TRUE)

Layer(h, l, n) == IF n = 1 THEN DecodeLayer(h, l) ELSE BatchLayer(h, l)

\* The kernels of a pass over n tokens at position at.
Enqueue(n, at, buffer, capturing, scr) ==
    LET h0 == [q8k |-> buffer, kernels |-> <<>>, pre |-> FALSE,
               capturing |-> capturing, at |-> at, scr |-> scr]
        body == FoldLeft(LAMBDA h, l : Layer(h, l, n), h0, [l \in Layers |-> l])
    IN Gemv([body EXCEPT !.pre = FALSE], 0, "head", config.head, config.hidden)

-----------------------------------------------------------------------------
(* The device.  c is what it runs under: n tokens whose first is at pos,   *)
(* the value in graphPos_, and the allocations that are live.              *)

\* A kernel that was recorded with an address that has been freed since spoils
\* the pass.
Live(k, c) == k.scr = c.scr /\ (k.op \in {"put", "get"} => k.gen \in c.gens)

\* Kernel k.  m: the K/V rows, the activation in the buffer, whether all is
\* right so far.
Step(m, k, c) ==
    LET at == IF k.at = Device THEN c.dev ELSE k.at
        this == <<k.gen, k.layer, k.what>>
    IN [rows |-> IF k.op # "store" THEN m.rows
                 ELSE [m.rows EXCEPT ![k.layer] =
                         [p \in Positions |-> IF p \in at .. at + c.n - 1
                                              THEN m.good /\ at = c.pos ELSE @[p]]],
        held |-> IF k.op = "put" THEN this ELSE m.held,
        good |-> /\ m.good /\ Live(k, c)
                 /\ k.op = "put" => k.fits
                 /\ k.op = "get" => m.held = this
                 /\ k.op = "attend" =>
                      at = c.pos /\ \A p \in 0 .. c.pos + c.n - 1 : m.rows[k.layer][p]]

Fresh(r) == [rows |-> r, held |-> <<>>, good |-> TRUE]
Execute(m, kernels, c) == FoldLeft(LAMBDA a, k : Step(a, k, c), m, kernels)

\* A decode step from recorded kernels, with dev in graphPos_.
Recorded(dev, buffer, scr) ==
    [n |-> 1, pos |-> kvPos, dev |-> dev, gens |-> {buffer}, scr |-> scr]
\* On the eager path a cudaFree waits for the kernels that use the buffer: each
\* runs while its own is live.
AsEnqueued(n, scr) == [n |-> n, pos |-> kvPos, dev |-> 0, gens |-> Nat, scr |-> scr]

-----------------------------------------------------------------------------
(* The passes.                                                             *)

\* Slip: the graph survives the buffers it was recorded with.
GrownKeepsGraph(n, s, g) ==
    IF scratch.cap >= n THEN s = scratch /\ g = graph
    ELSE /\ \E one \in BOOLEAN : s = [gen |-> scratch.gen + 1, cap |-> n, oneRow |-> one]
         /\ g = graph

\* ensureScratch: s and g are the scratch buffers and the graph afterwards.
Grown(n, s, g) ==
    IF scratch.cap >= n THEN s = scratch /\ g = graph
    ELSE /\ \E one \in BOOLEAN : s = [gen |-> scratch.gen + 1, cap |-> n, oneRow |-> one]
         /\ g = NoGraph

\* Slip: the only row is put where a caller that asked for one row looks.
RowsWrittenFirst(n, all, s) ==
    IF all /\ ~s.oneRow THEN 0 .. n - 1 ELSE {0}

\* The rows of the caller's buffer that receive logits.
RowsWritten(n, all, s) ==
    IF all /\ ~s.oneRow THEN 0 .. n - 1 ELSE IF all THEN {n - 1} ELSE {0}
RowRead(n, all) == IF all THEN n - 1 ELSE 0

Eager(n, all, s) ==
    LET h == Enqueue(n, kvPos, q8k, FALSE, s.gen)
        m == Execute(Fresh(rows), h.kernels, AsEnqueued(n, s.gen))
    IN /\ q8k' = h.q8k
       /\ rows' = m.rows
       /\ answer' = (m.good /\ RowRead(n, all) \in RowsWritten(n, all, s))
       /\ kvPos' = kvPos + n

Wanted(n, all, g) == n = 1 /\ ~all /\ ~g.failed
Fits(n) == kvPos + n <= MaxPos

\* A pass that is not captured: a batch, one with all logits, or one after the
\* graph was given up.  A pass that would build a graph which the environment
\* switches off gives it up.
ForwardEager(n, all) ==
    /\ Fits(n)
    /\ \E s \in [gen : {scratch.gen, scratch.gen + 1}, cap : 1 .. MaxSeqLen, oneRow : BOOLEAN],
          g \in {graph, NoGraph} :
         /\ Grown(n, s, g)
         /\ Wanted(n, all, g) => ~g.built /\ ~config.graph
         /\ scratch' = s
         /\ graph' = [g EXCEPT !.failed = @ \/ Wanted(n, all, g)]
         /\ Eager(n, all, s)
    /\ UNCHANGED <<config, graphPos>>

\* The buffer that ensureGraphScratch leaves.
GraphScratch == Ensured(q8k, Q8K(config.hidden))

\* Slip: the kernels are recorded with the position of the first token.
CaptureFrozenPosition ==
    /\ Fits(1) /\ config.graph
    /\ scratch.cap >= 1 /\ Wanted(1, FALSE, graph) /\ ~graph.built
    /\ LET h == Enqueue(1, kvPos, GraphScratch, TRUE, scratch.gen)
           m == Execute(Fresh(rows), h.kernels, Recorded(kvPos, h.q8k.gen, scratch.gen))
       IN /\ graph' = [graph EXCEPT !.built = TRUE, !.kernels = h.kernels]
          /\ q8k' = h.q8k
          /\ rows' = m.rows
          /\ answer' = m.good
    /\ graphPos' = kvPos
    /\ kvPos' = kvPos + 1
    /\ UNCHANGED <<config, scratch>>

\* The first decode step: captured, instantiated, launched.
Capture ==
    /\ Fits(1) /\ config.graph
    /\ \E s \in [gen : {scratch.gen, scratch.gen + 1}, cap : 1 .. MaxSeqLen, oneRow : BOOLEAN],
          g \in {graph, NoGraph} :
         /\ Grown(1, s, g)
         /\ Wanted(1, FALSE, g) /\ ~g.built
         /\ scratch' = s
         /\ LET h == Enqueue(1, Device, GraphScratch, TRUE, s.gen)
                m == Execute(Fresh(rows), h.kernels, Recorded(kvPos, h.q8k.gen, s.gen))
            IN /\ graph' = [g EXCEPT !.built = TRUE, !.kernels = h.kernels]
               /\ q8k' = h.q8k
               /\ rows' = m.rows
               /\ answer' = m.good
    /\ graphPos' = kvPos
    /\ kvPos' = kvPos + 1
    /\ UNCHANGED config

\* The capture cannot begin: eager from now on.
CaptureRefused ==
    /\ Fits(1) /\ config.graph
    /\ scratch.cap >= 1 /\ Wanted(1, FALSE, graph) /\ ~graph.built
    /\ graph' = [graph EXCEPT !.failed = TRUE]
    /\ LET h == Enqueue(1, kvPos, GraphScratch, FALSE, scratch.gen)
           m == Execute(Fresh(rows), h.kernels, AsEnqueued(1, scratch.gen))
       IN q8k' = h.q8k /\ rows' = m.rows /\ answer' = m.good
    /\ graphPos' \in {graphPos, kvPos}
    /\ kvPos' = kvPos + 1
    /\ UNCHANGED <<config, scratch>>

\* Slip: the device keeps the position of the capture.
ReplayOldPosition ==
    /\ Fits(1) /\ Wanted(1, FALSE, graph) /\ graph.built
    /\ LET m == Execute(Fresh(rows), graph.kernels, Recorded(graphPos, q8k.gen, scratch.gen))
       IN rows' = m.rows /\ answer' = m.good
    /\ kvPos' = kvPos + 1
    /\ UNCHANGED <<config, q8k, scratch, graph, graphPos>>

\* A decode step from the graph.
Replay ==
    /\ Fits(1) /\ Wanted(1, FALSE, graph) /\ graph.built
    /\ graphPos' = kvPos
    /\ LET m == Execute(Fresh(rows), graph.kernels, Recorded(kvPos, q8k.gen, scratch.gen))
       IN rows' = m.rows /\ answer' = m.good
    /\ kvPos' = kvPos + 1
    /\ UNCHANGED <<config, q8k, scratch, graph>>

\* Slip: the token is counted although the eager path runs it again.
ReplayFailsCounted(ran) ==
    /\ Fits(2) /\ Wanted(1, FALSE, graph) /\ graph.built
    /\ graphPos' = kvPos
    /\ graph' = [graph EXCEPT !.failed = TRUE]
    /\ LET h == Enqueue(1, kvPos + 1, q8k, FALSE, scratch.gen)
           m == Execute(Fresh(rows), h.kernels, AsEnqueued(1, scratch.gen))
       IN q8k' = h.q8k /\ rows' = m.rows /\ answer' = m.good
    /\ kvPos' = kvPos + 2
    /\ UNCHANGED <<config, scratch>>

\* A replay that fails after some of its kernels have run: the error is
\* cleared, the eager path computes the token again and takes over.
ReplayFails(ran) ==
    /\ Fits(1) /\ Wanted(1, FALSE, graph) /\ graph.built
    /\ graphPos' = kvPos
    /\ graph' = [graph EXCEPT !.failed = TRUE]
    /\ LET first == Execute(Fresh(rows), SubSeq(graph.kernels, 1, ran),
                            Recorded(kvPos, q8k.gen, scratch.gen))
           h == Enqueue(1, kvPos, q8k, FALSE, scratch.gen)
           m == Execute([first EXCEPT !.good = TRUE], h.kernels, AsEnqueued(1, scratch.gen))
       IN q8k' = h.q8k /\ rows' = m.rows /\ answer' = m.good
    /\ kvPos' = kvPos + 1
    /\ UNCHANGED <<config, scratch>>

\* clearKVCache: the graph, its buffers and *graphPos_ stay.
Clear ==
    /\ kvPos > 0
    /\ kvPos' = 0 /\ rows' = NoRows
    /\ UNCHANGED <<config, q8k, scratch, graph, graphPos, answer>>

Next ==
    \/ \E n \in 1 .. MaxSeqLen, all \in BOOLEAN : ForwardEager(n, all)
    \/ Capture \/ CaptureRefused \/ Replay
    \/ \E ran \in 0 .. Len(graph.kernels) : ReplayFails(ran)
    \/ Clear

Spec == Init /\ [][Next]_vars

-----------------------------------------------------------------------------
(* Configurations in which a captured step has room (the theorems about    *)
(* every configuration ask for it; a cold engine of the default model does *)
(* not have it).                                                           *)

\* What a GEMV that quantizes its own operand needs of the buffer.
Need(kind, blocks) == IF kind = "q81" THEN Q81(blocks) ELSE IF kind = "q8k" THEN Q8K(blocks) ELSE 0

\* No kernel of a decode step needs more than this of the buffer.
Enough(c, bytes) ==
    /\ Need(c.qkv, c.hidden) <= bytes /\ Need(c.attnO, c.hidden) <= bytes
    /\ Need(c.gateUp, c.hidden) <= bytes /\ Need(c.down, c.inter) <= bytes
    /\ Need(c.head, c.hidden) <= bytes
    /\ c.fold => Q81(c.hidden) <= bytes

\* The buffer a capture finds: what ensureGraphScratch makes of it at least.
AtCapture(c, bytes) == IF bytes >= Q8K(c.hidden) THEN bytes ELSE Q8K(c.hidden)

\* The graph is switched off, or the engine has room for all of a captured step
\* as it comes: fresh from the upload, or after its first decode step.
HasRoom(c) == c.graph => Enough(c, AtCapture(c, IF c.warm THEN Q81(c.inter) ELSE 0))

\* An attnO that reads what the combine kernel quantizes has one that does.
IsFed(c) == c.fold /\ ~c.split => c.attnO # "q81"

RoomForGraph == \A c \in Configs : HasRoom(c)
CombineWrites == \A c \in Configs : IsFed(c)

-----------------------------------------------------------------------------
\* Every variable has the type of what it stands for; the buffer only grows,
\* and never past what the widest matrix of the model needs.
TypeOK ==
    /\ config \in Configs
    /\ kvPos \in 0 .. MaxPos
    /\ rows \in [Layers -> [Positions -> BOOLEAN]]
    /\ q8k \in [gen : Nat, bytes : {0} \cup
                  {Q81(b) : b \in {config.hidden, config.inter}} \cup
                  {Q8K(b) : b \in {config.hidden, config.inter}}]
    /\ scratch \in [gen : Nat, cap : 0 .. MaxSeqLen, oneRow : BOOLEAN]
    /\ graph.built \in BOOLEAN /\ graph.failed \in BOOLEAN
    /\ graph.built <=> graph.kernels # <<>>
    /\ graphPos \in Positions
    /\ answer \in BOOLEAN

\* Captured, replayed, failed and recomputed, or eager: a pass that returns
\* success has put into the row its caller reads the logits of exactly the
\* tokens before and in it, each quantized activation read by the GEMV it was
\* quantized for.
LogitsOfContext == answer

\* The device's cache agrees with kvPos_: the rows below it are those of the
\* tokens of the session, in every layer.
CacheMatchesPosition == \A l \in Layers, p \in 0 .. kvPos - 1 : rows[l][p]

\* The memory that a built graph reads and writes is the memory the engine
\* owns: no buffer named in it has been freed, or is too small for what is
\* written into it ("q8k_ / scratch are pre-allocated and stable").
GraphBuffersLive ==
    graph.built =>
        \A i \in DOMAIN graph.kernels :
            LET k == graph.kernels[i]
            IN Live(k, Recorded(kvPos, q8k.gen, scratch.gen)) /\ (k.op = "put" => k.fits)

\* At any time, what the graph would do with the next token is what the eager
\* body would do: the same rows, the same verdict on the logits.
ReplayEqualsEager ==
    graph.built /\ Fits(1) =>
        LET r == Execute(Fresh(rows), graph.kernels, Recorded(kvPos, q8k.gen, scratch.gen))
            e == Execute(Fresh(rows), Enqueue(1, kvPos, q8k, FALSE, scratch.gen).kernels,
                         AsEnqueued(1, scratch.gen))
        IN r.rows = e.rows /\ r.good = e.good

\* No pass rewrites a row of an earlier token: only clearKVCache does.
ContextKept ==
    [][kvPos' >= kvPos =>
         \A l \in Layers, p \in 0 .. kvPos - 1 : rows'[l][p] = rows[l][p]]_vars
=============================================================================
