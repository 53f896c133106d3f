----------------------------- MODULE LayerState -----------------------------
(* The state of a pass through the layers, shared by the engines: rows of  *)
(* the device's and of the host's buffers, the device scratch that several *)
(* launches reuse, the K/V cache and the recurrent state of each layer.    *)
EXTENDS LayerTerms, FiniteSets

CONSTANTS Configs,        \* model, weight types and switches
          NumLayers,
          MaxPos,         \* tokens of a session
          MaxBatch        \* tokens of a pass

ASSUME SizesAssumption ==
    /\ NumLayers \in Nat \ {0} /\ MaxPos \in Nat \ {0} /\ MaxBatch \in Nat \ {0}
    /\ \A d \in Configs :
          /\ d.ngl \in 0..NumLayers /\ d.nextn \in 0..NumLayers /\ d.convK \in Nat \ {0, 1}
          /\ {d.hidden, d.inter, d.expertFF, d.q8k, Len(d.route[1])} \subseteq Nat

VARIABLES c,              \* the configuration
          dev,            \* rows: device buffers; q8k: q8k_ and its capacity;
                          \* wF16: the matrix last decoded to half precision;
                          \* q8kN, moeWgt, moeDownTable: scratch of the experts
          host,           \* rows of the host's buffers, and the mirrors that the
                          \* expert callback reads and writes, two of each
          kv,             \* per slot and position: K and V
          rec,            \* per recurrent layer: window of the convolution, state
          kvPos,          \* tokens consumed
          pass,           \* the pass: tokens, layer, stage, choices made earlier
          logits          \* rows of logits, by token of the pass
vars == <<c, dev, host, kv, rec, kvPos, pass, logits>>

DevBuffers == {"hidden", "norm", "q", "k", "v", "attnOut", "attnProj", "gate", "up", "ffnOut",
               "hiddenF16", "attnOutF16", "gateF16", "q35QGate", "qkv", "q35z", "q35Beta",
               "q35GateV", "convOut", "gdnOut", "fold", "logits", "moeLogits", "moeGateUp",
               "moeGateUp2", "moeDown", "moeExpertOut", "moeShexpGate", "moeShexpGateUp",
               "moeShexpGateUp2", "moeShexpDown"}
HostBuffers == {"hidden", "attnNorm", "q", "k", "v", "attnOut", "attnProj", "ffnNorm", "gate",
                "up", "ffnOut", "qGate", "qkv", "z", "beta", "gateV", "convOut", "normOut",
                "prismAct", "logits"}
Slots == 1..MaxBatch
Tokens == 1..pass.T
Positions == 0..(MaxPos - 1)
PosOf(t) == kvPos + t - 1
Layers == 1..NumLayers
\* The slot of a layer in the K/V cache: the hybrid models have one per
\* attention layer.
kvLayerOffset(L) == IF c.arch = "qwen35" THEN ((L - 1) \div c.interval) + 1 ELSE L

On(switch) == switch \in c.env
Type(name) == c.types[name]
Width(name) == IF name = "ffnDown" THEN c.inter ELSE c.hidden   \* in blocks of 256

\* The product with a matrix stored rotated, which wants a folded operand.
RotatedMul(w, x) ==
    IF x[1] = "fold" /\ x[2] = (w[3] = "ssmOut") THEN Mul(w, x[3]) ELSE <<"garbled", w, x>>

\* Rows t <= T of buffer b, one value each.
Put(d, b, t, x) == [d EXCEPT !.rows[b][t] = x]
PutAll(d, b, f) == [d EXCEPT !.rows[b] = [t \in Slots |-> IF t \in Tokens THEN f[t] ELSE @[t]]]
Row(d, b, t) == d.rows[b][t]
\* A kernel that maps rows of b to rows of dst.
Each(d, dst, Op(_)) == PutAll(d, dst, [t \in Tokens |-> Op(t)])

\* Attention reads the cache after this pass has stored its rows.
KeysTo(cache, p) == [i \in 1..(p + 1) |-> cache[i - 1].k]
ValuesTo(cache, p) == [i \in 1..(p + 1) |-> cache[i - 1].v]
\* Mutant: a pass stores its rows from the first slot on.
StoredFromZero(cache, k, v) ==
    [p \in Positions |-> IF p + 1 \in Tokens THEN [k |-> k[p + 1], v |-> v[p + 1]] ELSE cache[p]]
Stored(cache, k, v) ==
    [p \in Positions |-> IF p - kvPos + 1 \in Tokens
                         THEN [k |-> k[p - kvPos + 1], v |-> v[p - kvPos + 1]] ELSE cache[p]]

Stage(engine, s) == pass.stage = s /\ pass.engine = engine
Goto(s) == pass' = [pass EXCEPT !.stage = s]

\* A session with nothing consumed: the buffers hold what was in memory.
Idle == [T |-> 0, L |-> 0, stage |-> "idle", engine |-> "none", all |-> FALSE,
         fold |-> FALSE, combine |-> FALSE]
FreshRows == [t \in Slots |-> Junk]
Fresh(buffers) == [b \in buffers |-> FreshRows]
TwoOf(x) == [i \in 0..1 |-> x]
NoTable == <<>>

Init ==
    /\ c \in Configs
    /\ dev = [rows |-> Fresh(DevBuffers), q8k |-> [cap |-> c.q8k, row |-> Junk], wF16 |-> Junk,
              q8kN |-> Junk, moeWgt |-> NoTable, moeDownTable |-> NoTable]
    /\ host = [rows |-> Fresh(HostBuffers), moeBufFlip |-> 0, moeRouterIdx |-> NoTable,
               moeRouterWgt |-> NoTable, moeNorm |-> TwoOf(FreshRows), moeFfnOut |-> TwoOf(FreshRows),
               moeDownTable |-> TwoOf(NoTable)]
    /\ kv = [L \in Layers |-> [p \in Positions |-> [k |-> Junk, v |-> Junk]]]
    /\ rec = [L \in Layers |-> [conv |-> [i \in 1..(c.convK - 1) |-> Zeros], gdn |-> Zeros]]
    /\ kvPos = 0 /\ pass = Idle /\ logits = <<>>
=============================================================================
