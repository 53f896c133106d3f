------------------------- MODULE ModelSessionProofs -------------------------
(***************************************************************************)
(* Theorems about ModelSession, for every number of layers, every set of   *)
(* models and settings, and every bound on prompts and tokens.             *)
(*                                                                         *)
(* LogitsMatchContext compares what a finished pass has seen with the      *)
(* session's tokens.  It follows from what each engine holds between and   *)
(* within passes: Session.  That a GPU pass starts from a GPU state of the *)
(* session rests on when the GPU may run at all (Latches), and that the    *)
(* passes of the profiling leave no trace rests on their being kept from   *)
(* the GPU and ended by a reset (Profiling).                               *)
(***************************************************************************)
EXTENDS ModelSession, SequenceTheorems, TLAPS

OnGpu == config.gpu /\ config.arch \in {"qwen2", "qwen35", "qwen35moe"}

Types ==
    /\ config \in Configs
    /\ pc \in {"idle", "profile", "dispatch", "layers", "returned", "sample", "next"}
    /\ caller \in {"client", "prefill", "decode", "profile"}
    /\ toks \in Seq(Nat) /\ (pc \in {"dispatch", "layers"} => Len(toks) > 0)
    /\ outer.caller \in {"none", "upload", "client", "prefill", "decode"} /\ outer.toks \in Seq(Nat)
    /\ layer \in Nat \ {0}
    /\ host \in [Layers -> Seq(Nat)] /\ dev \in [Layers -> Seq(Nat)]
    /\ pos \in Nat /\ kvPos \in Nat /\ fed \in Nat
    /\ context \in Seq(Nat)
    /\ owned \in BOOLEAN /\ broken \in BOOLEAN
    /\ DOMAIN view = Layers

\* While the profiling holds the mutex its passes are the only ones, they are
\* kept on the CPU, and the GPU has not run yet.
Profiling ==
    /\ pc = "profile" => outer # NoPass
    /\ outer = NoPass => caller # "profile"
    /\ outer # NoPass =>
          /\ pc \in {"profile", "dispatch", "layers", "returned"}
          /\ pc # "profile" => caller = "profile"
          /\ forceCpu = TRUE /\ owned = FALSE
          /\ kvPos = 0 /\ dev = Nothing /\ context = <<>>
          /\ outer.caller # "none"
          /\ outer.caller # "upload" => Len(outer.toks) > 0

\* A session the GPU owns is not forced to the CPU; before the upload of a
\* model that the GPU can take, no pass has run.
Latches ==
    /\ owned = TRUE => forceCpu = FALSE /\ OnGpu /\ upload = "uploaded"
    /\ upload = "none" /\ config.supported = TRUE =>
          /\ owned = FALSE /\ forceCpu = FALSE /\ kvPos = 0 /\ dev = Nothing
          /\ OnGpu => pos = 0 /\ context = <<>> /\ pc # "layers"

\* Layer l of model m holds the tokens c: a recurrent layer these and no
\* others, an attention layer these at its first rows.
Holds(m, l, content, c) ==
    IF l \in m.recurrent THEN content = c
    ELSE Len(content) >= Len(c) /\ \A i \in 1 .. Len(c) : content[i] = c[i]

\* The tokens a GPU that takes part in the session holds.
OnDevice == IF pc = "layers" /\ owned = TRUE THEN context \o toks ELSE context

GpuHolds ==
    forceCpu = FALSE /\ (owned = TRUE \/ pos = 0) =>
       /\ kvPos = Len(OnDevice)
       /\ \A l \in Layers : l <= config.nGpu => Holds(config, l, dev[l], OnDevice)

CpuHolds ==
    pc # "layers" =>
       /\ owned = FALSE => \A l \in Layers : Holds(config, l, host[l], context)
       /\ owned = TRUE /\ config.arch = "qwen35" =>
             \A l \in Layers : l > config.nGpu => Holds(config, l, host[l], context)
       /\ pos = 0 => \A l \in config.recurrent : host[l] = <<>>

\* Within a pass the layers below "layer" have taken its tokens.
InPass ==
    pc = "layers" =>
       /\ owned = TRUE => config.arch = "qwen35"
       /\ \A l \in Layers : l >= layer => Holds(config, l, host[l], context)
       /\ \A l \in Layers : l < layer =>
             /\ view[l] = context \o toks
             /\ (owned = TRUE /\ l <= config.nGpu) \/ Holds(config, l, host[l], context \o toks)

Session ==
    outer = NoPass /\ broken = FALSE =>
       /\ pos = Len(context)
       /\ GpuHolds /\ CpuHolds /\ InPass
       /\ HasRow => SeesContext

IInv == Types /\ Profiling /\ Latches /\ Session

-----------------------------------------------------------------------------
\* Storing tokens t at position p leaves the rows below p alone.
LEMMA StoreProperties ==
    ASSUME NEW rows \in Seq(Nat), NEW p \in Nat, NEW t \in Seq(Nat)
    PROVE  /\ Store(rows, p, t) \in Seq(Nat)
           /\ Len(Store(rows, p, t)) >= p + Len(t)
           /\ p <= Len(rows) => \A i \in 1 .. p : Store(rows, p, t)[i] = rows[i]
           /\ \A i \in 1 .. Len(t) : Store(rows, p, t)[p + i] = t[i]
  <1> DEFINE n == IF p + Len(t) > Len(rows) THEN p + Len(t) ELSE Len(rows)
             e(i) == IF i \in p + 1 .. p + Len(t) THEN t[i - p]
                     ELSE IF i <= Len(rows) THEN rows[i] ELSE 0
  <1>1. n \in Nat /\ n >= p + Len(t) /\ n >= Len(rows) /\ Len(t) \in Nat /\ Len(rows) \in Nat
    OBVIOUS
  <1>2. Store(rows, p, t) = [i \in 1 .. n |-> e(i)]
    BY DEF Store
  <1>3. ASSUME NEW i \in 1 .. n
        PROVE  e(i) \in Nat
    <2>1. CASE i \in p + 1 .. p + Len(t)
      <3>1. i - p \in 1 .. Len(t)
        BY <1>1, <2>1
      <3> QED
        BY <2>1, <3>1
    <2>2. CASE i \notin p + 1 .. p + Len(t)
      BY <1>1, <2>2
    <2> QED
      BY <2>1, <2>2
  <1>4. Store(rows, p, t) \in Seq(Nat) /\ Len(Store(rows, p, t)) = n
    <2> HIDE DEF e, n
    <2>1. [i \in 1 .. n |-> e(i)] \in Seq(Nat) /\ Len([i \in 1 .. n |-> e(i)]) = n
      BY <1>1, <1>3, IsASeq
    <2> QED
      BY <1>2, <2>1
  <1>5. ASSUME p <= Len(rows), NEW i \in 1 .. p
        PROVE  Store(rows, p, t)[i] = rows[i]
    <2>1. i \in 1 .. n /\ i \notin p + 1 .. p + Len(t) /\ i <= Len(rows)
      BY <1>1, <1>5
    <2> QED
      BY <1>2, <2>1
  <1>6. ASSUME NEW i \in 1 .. Len(t)
        PROVE  Store(rows, p, t)[p + i] = t[i]
    <2>1. p + i \in 1 .. n /\ p + i \in p + 1 .. p + Len(t) /\ p + i - p = i
      BY <1>1
    <2> QED
      BY <1>2, <2>1
  <1> QED
    BY <1>1, <1>4, <1>5, <1>6

LEMMA ConcatIndex ==
    ASSUME NEW a \in Seq(Nat), NEW b \in Seq(Nat)
    PROVE  /\ a \o b \in Seq(Nat) /\ Len(a \o b) = Len(a) + Len(b)
           /\ Len(a) \in Nat /\ Len(b) \in Nat
           /\ \A i \in 1 .. Len(a) : (a \o b)[i] = a[i]
           /\ \A i \in 1 .. Len(b) : (a \o b)[Len(a) + i] = b[i]
  <1>1. Len(a) \in Nat /\ Len(b) \in Nat
    OBVIOUS
  <1>2. /\ a \o b \in Seq(Nat) /\ Len(a \o b) = Len(a) + Len(b)
        /\ \A i \in 1 .. Len(a) + Len(b) :
              (a \o b)[i] = IF i <= Len(a) THEN a[i] ELSE b[i - Len(a)]
    BY ConcatProperties
  <1>3. ASSUME NEW i \in 1 .. Len(a)
        PROVE  (a \o b)[i] = a[i]
    BY <1>1, <1>2
  <1>4. ASSUME NEW i \in 1 .. Len(b)
        PROVE  (a \o b)[Len(a) + i] = b[i]
    <2>1. Len(a) + i \in 1 .. Len(a) + Len(b) /\ ~(Len(a) + i <= Len(a)) /\ Len(a) + i - Len(a) = i
      BY <1>1
    <2> QED
      BY <1>2, <2>1
  <1> QED
    BY <1>1, <1>2, <1>3, <1>4

\* A sequence whose first elements are those of another has it as a prefix.
LEMMA PrefixIs ==
    ASSUME NEW d \in Seq(Nat), NEW c \in Seq(Nat), Len(d) >= Len(c),
           \A i \in 1 .. Len(c) : d[i] = c[i]
    PROVE  SubSeq(d, 1, Len(c)) = c
  <1>1. Len(c) \in Nat /\ Len(d) \in Nat
    OBVIOUS
  <1>2. \A i \in 1 .. Len(c) : d[i] \in Nat
    BY <1>1
  <1>3. /\ SubSeq(d, 1, Len(c)) \in Seq(Nat)
        /\ Len(SubSeq(d, 1, Len(c))) = IF 1 <= Len(c) THEN Len(c) - 1 + 1 ELSE 0
        /\ \A i \in 1 .. Len(c) - 1 + 1 : SubSeq(d, 1, Len(c))[i] = d[1 + i - 1]
    BY <1>1, <1>2, SubSeqProperties
  <1>4. Len(SubSeq(d, 1, Len(c))) = Len(c)
    BY <1>1, <1>3
  <1>5. ASSUME NEW i \in 1 .. Len(c)
        PROVE  SubSeq(d, 1, Len(c))[i] = c[i]
    <2>1. i \in 1 .. Len(c) - 1 + 1 /\ 1 + i - 1 = i
      BY <1>1
    <2> QED
      BY <1>3, <2>1
  <1> QED
    BY <1>3, <1>4, <1>5, SeqEqual

\* A layer that holds the session and runs a pass sees the session and the
\* pass, and holds both from then on.
LEMMA LayerRuns ==
    ASSUME toks \in Seq(Nat), NEW l, NEW content \in Seq(Nat), NEW c \in Seq(Nat),
           Holds(config, l, content, c)
    PROVE  /\ Absorb(l, content, Len(c)) \in Seq(Nat)
           /\ Holds(config, l, Absorb(l, content, Len(c)), c \o toks)
           /\ Seen(l, Absorb(l, content, Len(c)), Len(c)) = c \o toks
  <1>1. /\ c \o toks \in Seq(Nat) /\ Len(c \o toks) = Len(c) + Len(toks)
        /\ Len(c) \in Nat /\ Len(toks) \in Nat
        /\ \A i \in 1 .. Len(c) : (c \o toks)[i] = c[i]
        /\ \A i \in 1 .. Len(toks) : (c \o toks)[Len(c) + i] = toks[i]
    BY ConcatIndex
  <1>2. CASE l \in config.recurrent
    <2>1. content = c /\ Absorb(l, content, Len(c)) = c \o toks
      BY <1>2 DEF Holds, Absorb
    <2> QED
      BY <1>1, <1>2, <2>1 DEF Seen, Holds
  <1>3. CASE l \notin config.recurrent
    <2> DEFINE d == Store(content, Len(c), toks)
               ct == c \o toks
    <2>1. Len(content) >= Len(c) /\ \A i \in 1 .. Len(c) : content[i] = c[i]
      BY <1>3 DEF Holds
    <2>2. /\ d \in Seq(Nat) /\ Len(d) >= Len(c) + Len(toks)
          /\ \A i \in 1 .. Len(c) : d[i] = content[i]
          /\ \A i \in 1 .. Len(toks) : d[Len(c) + i] = toks[i]
      BY <1>1, <2>1, StoreProperties
    <2>3. ct \in Seq(Nat) /\ Len(ct) = Len(c) + Len(toks)
      BY <1>1
    <2>4. ASSUME NEW i \in 1 .. Len(ct)
          PROVE  d[i] = ct[i]
      <3>1. CASE i \in 1 .. Len(c)
        BY <1>1, <2>1, <2>2, <3>1
      <3>2. CASE i \notin 1 .. Len(c)
        <4>1. PICK j \in 1 .. Len(toks) : i = Len(c) + j
          <5>1. i - Len(c) \in 1 .. Len(toks) /\ i = Len(c) + (i - Len(c))
            BY <1>1, <2>3, <3>2
          <5> QED
            BY <5>1
        <4> QED
          BY <1>1, <2>2, <4>1
      <3> QED
        BY <3>1, <3>2
    <2> HIDE DEF d, ct
    <2>5. Holds(config, l, d, ct)
      BY <1>3, <2>2, <2>3, <2>4 DEF Holds
    <2>6. SubSeq(d, 1, Len(ct)) = ct
      BY <2>2, <2>3, <2>4, PrefixIs
    <2>7. Seen(l, d, Len(c)) = SubSeq(d, 1, Len(ct))
      BY <1>3, <2>3 DEF Seen
    <2>8. Absorb(l, content, Len(c)) = d
      BY <1>3 DEF Absorb, d
    <2> QED
      BY <2>2, <2>5, <2>6, <2>7, <2>8 DEF ct
  <1> QED
    BY <1>2, <1>3

\* An attention layer that holds a pass still holds the session before it.
LEMMA HoldsPrefix ==
    ASSUME toks \in Seq(Nat), NEW l, l \notin config.recurrent, NEW content \in Seq(Nat),
           NEW c \in Seq(Nat), Holds(config, l, content, c \o toks)
    PROVE  Holds(config, l, content, c)
  <1>1. /\ Len(c \o toks) = Len(c) + Len(toks) /\ Len(c) \in Nat /\ Len(toks) \in Nat
        /\ \A i \in 1 .. Len(c) : (c \o toks)[i] = c[i]
    BY ConcatIndex
  <1>2. /\ Len(content) >= Len(c \o toks) /\ Len(content) \in Nat
        /\ \A i \in 1 .. Len(c \o toks) : content[i] = (c \o toks)[i]
    BY DEF Holds
  <1>3. Len(content) >= Len(c) /\ \A i \in 1 .. Len(c) : i \in 1 .. Len(c \o toks)
    BY <1>1, <1>2
  <1>4. \A i \in 1 .. Len(c) : content[i] = c[i]
    BY <1>1, <1>2, <1>3
  <1> QED
    BY <1>3, <1>4 DEF Holds

LEMMA HoldsNothing == \A m : \A l \in Layers : Holds(m, l, Nothing[l], <<>>)
  BY DEF Holds, Nothing

LEMMA AbsorbTyped ==
    ASSUME toks \in Seq(Nat), NEW l, NEW content \in Seq(Nat), NEW p \in Nat
    PROVE  Absorb(l, content, p) \in Seq(Nat)
  <1>1. content \o toks \in Seq(Nat)
    BY ConcatIndex
  <1>2. Store(content, p, toks) \in Seq(Nat)
    BY StoreProperties
  <1> QED
    BY <1>1, <1>2 DEF Absorb

LEMMA GpuRunsTyped ==
    ASSUME Types, GpuRuns
    PROVE  dev' \in [Layers -> Seq(Nat)] /\ kvPos' \in Nat
  <1>1. \A l \in Layers : Absorb(l, dev[l], kvPos) \in Seq(Nat)
    BY AbsorbTyped DEF Types
  <1>2. Len(toks) \in Nat /\ kvPos \in Nat /\ kvPos' = kvPos + Len(toks)
    BY DEF Types, GpuRuns
  <1> QED
    BY <1>1, <1>2 DEF Types, GpuRuns

LEMMA EnterTyped ==
    ASSUME Types, NEW who \in {"client", "prefill", "decode"}, NEW n \in Nat \ {0},
           NEW ask, Enter(who, n, ask)
    PROVE  /\ toks' \in Seq(Nat) /\ Len(toks') > 0
           /\ fed' \in Nat /\ caller' = who /\ pc' = "dispatch"
  <1> DEFINE e(i) == fed + i
  <1>1. \A i \in 1 .. n : e(i) \in Nat
    BY DEF Types
  <1>2. [i \in 1 .. n |-> e(i)] \in Seq(Nat) /\ Len([i \in 1 .. n |-> e(i)]) = n
    <2> HIDE DEF e
    <2> QED
      BY <1>1, IsASeq
  <1>3. toks' = [i \in 1 .. n |-> e(i)] /\ fed' = fed + n
    BY DEF Enter
  <1> HIDE DEF e
  <1>4. toks' \in Seq(Nat) /\ Len(toks') > 0
    BY <1>2, <1>3
  <1> QED
    BY <1>3, <1>4 DEF Enter, Types

-----------------------------------------------------------------------------
LEMMA Initial == Init => IInv
  <1> SUFFICES ASSUME Init
               PROVE  IInv
    OBVIOUS
  <1>1. <<>> \in Seq(Nat) /\ Nothing \in [Layers -> Seq(Nat)]
    BY DEF Nothing
  <1>2. Types
    <2>1. NoPass.caller = "none" /\ NoPass.toks \in Seq(Nat)
      BY <1>1 DEF NoPass
    <2>2. pos \in Nat /\ kvPos \in Nat /\ fed \in Nat /\ layer \in Nat \ {0}
      BY DEF Init
    <2>4. owned \in BOOLEAN /\ broken \in BOOLEAN /\ DOMAIN view = Layers
      BY DEF Init, Nothing
    <2>3. /\ config \in Configs /\ pc = "idle" /\ caller = "client"
          /\ outer = NoPass /\ toks = <<>> /\ context = <<>> /\ host = Nothing /\ dev = Nothing
      BY DEF Init
    <2> QED
      BY <1>1, <2>1, <2>2, <2>3, <2>4 DEF Types
  <1>3. Profiling /\ Latches
    BY DEF Init, Profiling, Latches
  <1>4. Session
    <2>1. \A l \in config.recurrent : Nothing[l] = <<>>
      BY ConfigsAssumption DEF Init, ConfigType, Nothing
    <2> QED
      BY <2>1, HoldsNothing DEF Init, Session, GpuHolds, CpuHolds, InPass, OnDevice, HasRow
  <1> QED
    BY <1>2, <1>3, <1>4 DEF IInv

LEMMA TypesStep ==
    ASSUME Types, Profiling, [Next]_vars
    PROVE  Types'
  <1>1. CASE ClearKVCache
    <2>1. Nothing \in [Layers -> Seq(Nat)] /\ <<>> \in Seq(Nat)
      BY DEF Nothing
    <2> QED
      BY <1>1, <2>1 DEF ClearKVCache, Cleared, Types, adapter, request
  <1>2. CASE ArmAbortPredicate
    BY <1>2 DEF ArmAbortPredicate, Types, adapter, request, state
  <1>3. ASSUME NEW n \in 1 .. MaxPrompt, NEW ask \in BOOLEAN, Forward(n, ask)
        PROVE  Types'
    <2>1. n \in Nat \ {0} /\ Enter("client", n, ask)
      BY <1>3, BoundsAssumption DEF Forward
    <2>2. toks' \in Seq(Nat) /\ Len(toks') > 0 /\ fed' \in Nat /\ caller' = "client"
      BY <2>1, EnterTyped
    <2> QED
      BY <1>3, <2>1, <2>2 DEF Forward, Enter, Types, adapter, state, abortion
  <1>4. ASSUME NEW n \in 0 .. MaxPrompt, NEW k \in BOOLEAN, Generate(n, k)
        PROVE  Types'
    <2>1. /\ n \in Nat /\ Nothing \in [Layers -> Seq(Nat)] /\ <<>> \in Seq(Nat)
      BY BoundsAssumption DEF Nothing
    <2>2. CASE ~aborted' /\ n # 0
      <3>1. Enter("prefill", n, FALSE)
        BY <1>4, <2>2 DEF Generate
      <3>2. toks' \in Seq(Nat) /\ Len(toks') > 0 /\ fed' \in Nat /\ caller' = "prefill"
        BY <2>1, <2>2, <3>1, EnterTyped
      <3>3. /\ host' = Nothing /\ dev' = Nothing /\ pos' = 0 /\ kvPos' = 0 /\ context' = <<>>
            /\ owned' = owned /\ broken' = FALSE /\ pc' = "dispatch"
            /\ UNCHANGED <<config, outer, layer, view>>
        BY <1>4, <2>2, <3>1 DEF Generate, Cleared, Enter, adapter
      <3> QED
        BY <2>1, <3>2, <3>3 DEF Types
    <2>3. CASE aborted' \/ n = 0
      BY <1>4, <2>1, <2>3 DEF Generate, Cleared, Types, adapter, state
    <2> QED
      BY <2>2, <2>3
  <1>5. CASE UploadEnds
    BY <1>5 DEF UploadEnds, Uploading, Types, request, state, abortion
  <1>6. CASE UploadHybrid
    <2>1. outer'.caller \in {"none", "upload", "client", "prefill", "decode"} /\ outer'.toks \in Seq(Nat)
      BY <1>6 DEF UploadHybrid, Uploading, Eligible, Types, Profiling, request
    <2> QED
      BY <1>6, <2>1 DEF UploadHybrid, Uploading, Types, request
  <1>7. CASE ProfilePass
    <2>1. ProfilePrompt \in Seq(Nat) /\ Len(ProfilePrompt) > 0
      BY BoundsAssumption DEF ProfilePrompt, ProfileToken
    <2>2. Nothing \in [Layers -> Seq(Nat)]
      BY DEF Nothing
    <2> QED
      BY <1>7, <2>1, <2>2 DEF ProfilePass, ResetCpuKVState, Types
  <1>8. CASE ProfileReturns
    BY <1>8 DEF ProfileReturns, Types, adapter, request, state, abortion
  <1>9. CASE ProfileDone
    <2>1. Nothing \in [Layers -> Seq(Nat)] /\ NoPass.caller = "none" /\ NoPass.toks \in Seq(Nat)
      BY DEF Nothing, NoPass
    <2>2. outer.caller # "upload" => outer.caller \in {"client", "prefill", "decode"} /\ Len(outer.toks) > 0
      BY <1>9 DEF ProfileDone, Types, Profiling
    <2> QED
      BY <1>9, <2>1, <2>2 DEF ProfileDone, ResetCpuKVState, Types
  <1>10. CASE NotEligible
    BY <1>10 DEF NotEligible, StartLayers, Types, adapter, request, state, abortion
  <1>11. CASE GpuPassFull
    <2>1. dev' \in [Layers -> Seq(Nat)] /\ kvPos' \in Nat /\ pos + Len(toks) \in Nat /\ context \o toks \in Seq(Nat)
      BY <1>11, GpuRunsTyped, ConcatIndex DEF GpuPassFull, Types
    <2> QED
      BY <1>11, <2>1 DEF GpuPassFull, Return, Types, adapter, request
  <1>12. ASSUME NEW copied \in BOOLEAN, GpuPassPrefix(copied)
        PROVE  Types'
    <2>1. dev' \in [Layers -> Seq(Nat)] /\ kvPos' \in Nat
      BY <1>12, GpuRunsTyped DEF GpuPassPrefix
    <2>2. config.nGpu + 1 \in Nat \ {0}
      BY ConfigsAssumption DEF Types, ConfigType, Layers
    <2> QED
      BY <1>12, <2>1, <2>2 DEF GpuPassPrefix, StartLayers, Types, adapter, request
  <1>13. ASSUME NEW late \in BOOLEAN, GpuPassFails(late)
        PROVE  Types'
    <2>1. dev' \in [Layers -> Seq(Nat)] /\ kvPos' \in Nat
      BY <1>13, GpuRunsTyped DEF GpuPassFails, Types
    <2>2. broken' \in BOOLEAN /\ owned' \in BOOLEAN
      BY <1>13 DEF GpuPassFails, Types
    <2> QED
      BY <1>13, <2>1, <2>2 DEF GpuPassFails, StartLayers, Types, adapter, request
  <1>14. CASE RunLayer
    <2>1. CASE aborted'
      BY <1>14, <2>1 DEF RunLayer, Return, Types, adapter, request
    <2>2. CASE ~aborted'
      <3>1. Absorb(layer, host[layer], pos) \in Seq(Nat) /\ layer \in Layers
        BY <1>14, AbsorbTyped, LayersAssumption DEF RunLayer, Types, Layers
      <3>2. host' \in [Layers -> Seq(Nat)]
        BY <1>14, <2>2, <3>1 DEF RunLayer, Types
      <3>3. layer' \in Nat \ {0}
        BY <1>14, <2>2 DEF RunLayer, Types
      <3> QED
        BY <1>14, <2>2, <3>2, <3>3 DEF RunLayer, Types, adapter, request
    <2> QED
      BY <2>1, <2>2
  <1>15. CASE LMHead
    <2>1. pos + Len(toks) \in Nat /\ context \o toks \in Seq(Nat)
      BY ConcatIndex DEF Types
    <2> QED
      BY <1>15, <2>1 DEF LMHead, Return, Types, adapter, request
  <1>16. CASE ClientResumes
    BY <1>16 DEF ClientResumes, Types, adapter, request, state, abortion
  <1>17. CASE PrefillReturns
    BY <1>17 DEF PrefillReturns, Types, adapter, request, state
  <1>18. CASE DecodeReturns
    BY <1>18 DEF DecodeReturns, Types, adapter, request, state, abortion
  <1>19. CASE Sample
    BY <1>19 DEF Sample, Types, adapter, request, state, abortion
  <1>20. CASE NextToken
    <2>1. CASE pc' = "idle"
      BY <1>20, <2>1 DEF NextToken, Enter, Types, adapter, state
    <2>2. CASE Enter("decode", 1, topK)
      <3>1. toks' = [i \in 1 .. 1 |-> fed + i] /\ fed' = fed + 1 /\ caller' = "decode" /\ asked' = topK
        BY <2>2 DEF Enter
      <3> QED
        BY <1>20, <2>2, <3>1 DEF NextToken, Enter, Types, adapter, state
    <2> QED
      BY <1>20, <2>1, <2>2 DEF NextToken
  <1>21. CASE UNCHANGED vars
    BY <1>21 DEF vars, adapter, request, state, abortion, Types
  <1> QED
    BY <1>1, <1>2, <1>3, <1>4, <1>5, <1>6, <1>7, <1>8, <1>9, <1>10, <1>11, <1>12, <1>13,
       <1>14, <1>15, <1>16, <1>17, <1>18, <1>19, <1>20, <1>21 DEF Next

LEMMA ProfilingStep ==
    ASSUME Types, Profiling, Latches, [Next]_vars
    PROVE  Profiling'
  <1>1. CASE ClearKVCache
    BY <1>1 DEF ClearKVCache, adapter, request, Profiling
  <1>2. CASE ArmAbortPredicate
    BY <1>2 DEF ArmAbortPredicate, adapter, request, Profiling
  <1>3. ASSUME NEW n \in 1 .. MaxPrompt, NEW ask \in BOOLEAN, Forward(n, ask)
        PROVE  Profiling'
    BY <1>3 DEF Forward, Enter, adapter, Profiling
  <1>4. ASSUME NEW n \in 0 .. MaxPrompt, NEW k \in BOOLEAN, Generate(n, k)
        PROVE  Profiling'
    BY <1>4 DEF Generate, Enter, adapter, Profiling
  <1>5. CASE UploadEnds
    BY <1>5 DEF UploadEnds, request, state, Profiling
  <1>6. CASE UploadHybrid
    BY <1>6 DEF Types, Latches, Eligible, OnGpu, NoPass, UploadHybrid, Uploading, request, Profiling
  <1>7. CASE ProfilePass
    BY <1>7 DEF ProfilePass, Profiling
  <1>8. CASE ProfileReturns
    BY <1>8 DEF ProfileReturns, adapter, state, Profiling
  <1>9. CASE ProfileDone
    BY <1>9 DEF Types, ProfileDone, Profiling
  <1>10. CASE NotEligible
    BY <1>10 DEF NotEligible, StartLayers, adapter, request, state, Profiling
  <1>11. CASE GpuPassFull
    BY <1>11 DEF Eligible, GpuPassFull, Return, adapter, request, Profiling
  <1>12. ASSUME NEW copied \in BOOLEAN, GpuPassPrefix(copied)
        PROVE  Profiling'
    BY <1>12 DEF Eligible, GpuPassPrefix, StartLayers, adapter, request, Profiling
  <1>13. ASSUME NEW late \in BOOLEAN, GpuPassFails(late)
        PROVE  Profiling'
    BY <1>13 DEF Eligible, GpuPassFails, StartLayers, adapter, request, Profiling
  <1>14. CASE RunLayer
    BY <1>14 DEF RunLayer, Return, adapter, request, Profiling
  <1>15. CASE LMHead
    BY <1>15 DEF LMHead, Return, adapter, request, Profiling
  <1>16. CASE ClientResumes
    BY <1>16 DEF ClientResumes, adapter, request, Profiling
  <1>17. CASE PrefillReturns
    BY <1>17 DEF PrefillReturns, adapter, request, Profiling
  <1>18. CASE DecodeReturns
    BY <1>18 DEF DecodeReturns, adapter, request, Profiling
  <1>19. CASE Sample
    BY <1>19 DEF Sample, adapter, request, Profiling
  <1>20. CASE NextToken
    BY <1>20 DEF NextToken, Enter, adapter, Profiling
  <1>21. CASE UNCHANGED vars
    BY <1>21 DEF vars, adapter, request, state, Profiling
  <1> QED
    BY <1>1, <1>2, <1>3, <1>4, <1>5, <1>6, <1>7, <1>8, <1>9, <1>10, <1>11, <1>12, <1>13,
       <1>14, <1>15, <1>16, <1>17, <1>18, <1>19, <1>20, <1>21 DEF Next

LEMMA LatchesStep ==
    ASSUME Types, Profiling, Latches, [Next]_vars
    PROVE  Latches'
  <1>1. CASE ClearKVCache
    BY <1>1 DEF ClearKVCache, Cleared, adapter, Latches, OnGpu
  <1>2. CASE ArmAbortPredicate
    BY <1>2 DEF ArmAbortPredicate, adapter, state, Latches, OnGpu
  <1>3. ASSUME NEW n \in 1 .. MaxPrompt, NEW ask \in BOOLEAN, Forward(n, ask)
        PROVE  Latches'
    BY <1>3 DEF Forward, Enter, adapter, state, Latches, OnGpu
  <1>4. ASSUME NEW n \in 0 .. MaxPrompt, NEW k \in BOOLEAN, Generate(n, k)
        PROVE  Latches'
    BY <1>4 DEF Generate, Enter, Cleared, adapter, state, Latches, OnGpu
  <1>5. CASE UploadEnds
    BY <1>5 DEF UploadEnds, Uploading, state, Latches
  <1>6. CASE UploadHybrid
    BY <1>6 DEF UploadHybrid, Uploading, Latches
  <1>7. CASE ProfilePass
    BY <1>7 DEF ProfilePass, ResetCpuKVState, Latches, OnGpu
  <1>8. CASE ProfileReturns
    BY <1>8 DEF ProfileReturns, adapter, state, Latches, OnGpu
  <1>9. CASE ProfileDone
    BY <1>9 DEF ProfileDone, ResetCpuKVState, Latches, OnGpu
  <1>10. CASE NotEligible
    BY <1>10 DEF Eligible, NotEligible, adapter, state, Latches, OnGpu
  <1>11. CASE GpuPassFull
    BY <1>11 DEF Eligible, GpuPassFull, adapter, Latches, OnGpu
  <1>12. ASSUME NEW copied \in BOOLEAN, GpuPassPrefix(copied)
        PROVE  Latches'
    BY <1>12 DEF Eligible, GpuPassPrefix, adapter, Latches, OnGpu
  <1>13. ASSUME NEW late \in BOOLEAN, GpuPassFails(late)
        PROVE  Latches'
    BY <1>13 DEF GpuPassFails, adapter, Latches
  <1>14. CASE RunLayer
    BY <1>14 DEF RunLayer, adapter, Latches, OnGpu
  <1>15. CASE LMHead
    BY <1>15 DEF LMHead, adapter, Latches, OnGpu
  <1>16. CASE ClientResumes
    BY <1>16 DEF ClientResumes, adapter, state, Latches, OnGpu
  <1>17. CASE PrefillReturns
    BY <1>17 DEF PrefillReturns, adapter, state, Latches, OnGpu
  <1>18. CASE DecodeReturns
    BY <1>18 DEF DecodeReturns, adapter, state, Latches, OnGpu
  <1>19. CASE Sample
    BY <1>19 DEF Sample, adapter, state, Latches, OnGpu
  <1>20. CASE NextToken
    BY <1>20 DEF NextToken, Enter, adapter, state, Latches, OnGpu
  <1>21. CASE UNCHANGED vars
    BY <1>21 DEF vars, adapter, state, Latches, OnGpu
  <1> QED
    BY <1>1, <1>2, <1>3, <1>4, <1>5, <1>6, <1>7, <1>8, <1>9, <1>10, <1>11, <1>12, <1>13,
       <1>14, <1>15, <1>16, <1>17, <1>18, <1>19, <1>20, <1>21 DEF Next

\* A step outside forward() that keeps what the engines hold.
LEMMA QuietStep ==
    ASSUME Session, pc # "layers", pc' \notin {"layers", "returned"},
           UNCHANGED <<config, host, dev, pos, kvPos, owned, forceCpu, context, broken, outer>>
    PROVE  Session'
  BY DEF Session, GpuHolds, CpuHolds, InPass, OnDevice, HasRow

\* A step outside forward() that resets both engines.
LEMMA ResetStep ==
    ASSUME Types, config' = config, pc' \notin {"layers", "returned"}, pos' = 0, host' = Nothing,
           kvPos' = 0, dev' = Nothing, context' = <<>>
    PROVE  Session'
  <1>1. \A l \in config.recurrent : Nothing[l] = <<>>
    BY ConfigsAssumption DEF Types, ConfigType, Nothing
  <1>2. \A l \in Layers : Holds(config, l, Nothing[l], <<>>)
    BY HoldsNothing
  <1> QED
    BY <1>1, <1>2 DEF Session, GpuHolds, CpuHolds, InPass, OnDevice, HasRow

\* While the profiling waits, Session says nothing.
LEMMA ProfilingPass ==
    ASSUME outer' # NoPass
    PROVE  Session'
  BY DEF Session

\* A GPU pass of a session starts from the session.
LEMMA GpuPass ==
    ASSUME IInv, outer = NoPass, broken = FALSE, pc = "dispatch", Eligible, GpuRuns
    PROVE  /\ kvPos' = Len(context \o toks)
           /\ \A l \in Layers : l <= config.nGpu =>
                 /\ Holds(config, l, dev'[l], context \o toks)
                 /\ Seen(l, dev'[l], kvPos) = context \o toks
  <1>1. toks \in Seq(Nat) /\ context \in Seq(Nat) /\ dev \in [Layers -> Seq(Nat)]
    BY DEF IInv, Types
  <1>2. /\ kvPos = Len(context)
        /\ \A l \in Layers : l <= config.nGpu => Holds(config, l, dev[l], context)
    BY DEF IInv, Types, Session, GpuHolds, OnDevice, Eligible
  <1>3. kvPos' = Len(context \o toks)
    BY <1>1, <1>2, ConcatIndex DEF GpuRuns
  <1>4. ASSUME NEW l \in Layers, l <= config.nGpu
        PROVE  /\ Holds(config, l, dev'[l], context \o toks)
               /\ Seen(l, dev'[l], kvPos) = context \o toks
    <2>1. l \in Prefix
      BY <1>4, LayersAssumption DEF Prefix, Layers
    <2>2. dev'[l] = Absorb(l, dev[l], Len(context))
      BY <1>2, <2>1 DEF GpuRuns
    <2>3. dev[l] \in Seq(Nat) /\ Holds(config, l, dev[l], context)
      BY <1>1, <1>2, <1>4
    <2> QED
      BY <1>1, <1>2, <2>2, <2>3, LayerRuns
  <1> QED
    BY <1>3, <1>4

\* The CPU holds a session that has no tokens yet, whoever owns it.
LEMMA FreshOnCpu ==
    ASSUME IInv, outer = NoPass, broken = FALSE, pc = "dispatch", pos = 0
    PROVE  context = <<>> /\ \A l \in Layers : Holds(config, l, host[l], context)
  <1>1. context = <<>>
    BY EmptySeq DEF IInv, Types, Session
  <1>2. \A l \in config.recurrent : host[l] = <<>>
    BY DEF IInv, Session, CpuHolds
  <1>3. \A l \in Layers : Len(host[l]) >= 0
    BY DEF IInv, Types
  <1> QED
    BY <1>1, <1>2, <1>3 DEF Holds

LEMMA SessionStep ==
    ASSUME IInv, [Next]_vars
    PROVE  Session'
  <1>1. CASE ClearKVCache
    BY <1>1, ResetStep DEF IInv, ClearKVCache, Cleared, adapter
  <1>2. CASE ArmAbortPredicate
    BY <1>2, QuietStep DEF IInv, ArmAbortPredicate, adapter, state
  <1>3. ASSUME NEW n \in 1 .. MaxPrompt, NEW ask \in BOOLEAN, Forward(n, ask)
        PROVE  Session'
    BY <1>3, QuietStep DEF IInv, Forward, Enter, adapter, state
  <1>4. ASSUME NEW n \in 0 .. MaxPrompt, NEW k \in BOOLEAN, Generate(n, k)
        PROVE  Session'
    <2>1. CASE aborted'
      BY <1>4, <2>1, QuietStep DEF IInv, Generate, adapter, state
    <2>2. CASE ~aborted'
      BY <1>4, <2>2, ResetStep DEF IInv, Generate, Cleared, Enter, adapter
    <2> QED
      BY <2>1, <2>2
  <1>5. CASE UploadEnds
    BY <1>5, QuietStep DEF IInv, UploadEnds, Uploading, state
  <1>6. CASE UploadHybrid
    <2>1. CASE config.resident
      <3>1. outer'.caller # "none"
        BY <1>6, <2>1 DEF UploadHybrid, Uploading, IInv, Types
      <3> QED
        BY <3>1, ProfilingPass DEF NoPass
    <2>2. CASE ~config.resident
      BY <1>6, <2>2, QuietStep DEF IInv, UploadHybrid, Uploading
    <2> QED
      BY <2>1, <2>2
  <1>7. CASE ProfilePass
    BY <1>7, ProfilingPass DEF IInv, Profiling, ProfilePass
  <1>8. CASE ProfileReturns
    BY <1>8, ProfilingPass DEF IInv, Profiling, ProfileReturns, adapter
  <1>9. CASE ProfileDone
    BY <1>9, ResetStep DEF IInv, Types, Profiling, ProfileDone, ResetCpuKVState
  <1>10. CASE NotEligible
    <2>1. CASE outer # NoPass
      BY <1>10, <2>1, ProfilingPass DEF NotEligible, adapter
    <2>2. CASE outer = NoPass /\ broken = FALSE
      <3>1. owned = FALSE
        BY <1>10 DEF NotEligible, Eligible, IInv, Types, Latches, OnGpu
      <3>2. \A l \in Layers : Holds(config, l, host[l], context) /\ ~(l < 1)
        BY <1>10, <2>2, <3>1, LayersAssumption DEF NotEligible, IInv, Session, CpuHolds, Layers
      <3>3. pos = Len(context) /\ GpuHolds
        BY <2>2 DEF IInv, Session
      <3> QED
        BY <1>10, <3>1, <3>2, <3>3
           DEF NotEligible, StartLayers, Session, GpuHolds, CpuHolds, InPass, OnDevice, HasRow,
               adapter, request, state
    <2>3. CASE broken # FALSE
      BY <1>10, <2>3 DEF NotEligible, Session
    <2> QED
      BY <2>1, <2>2, <2>3
  <1>11. CASE GpuPassFull
    <2>1. CASE broken # FALSE
      BY <1>11, <2>1 DEF GpuPassFull, Session
    <2>2. CASE broken = FALSE
      <3>1. outer = NoPass
        BY <1>11 DEF GpuPassFull, Eligible, IInv, Profiling
      <3>2. /\ kvPos' = Len(context \o toks)
            /\ \A l \in Layers : l <= config.nGpu =>
                  /\ Holds(config, l, dev'[l], context \o toks)
                  /\ Seen(l, dev'[l], kvPos) = context \o toks
        BY <1>11, <2>2, <3>1, GpuPass DEF GpuPassFull
      <3>3. pos' = Len(context \o toks) /\ pos' > 0
        <4>1. pos = Len(context) /\ Len(toks) > 0
          BY <1>11, <2>2, <3>1 DEF IInv, Session, Types, GpuPassFull
        <4> QED
          BY <1>11, <4>1, ConcatIndex DEF IInv, Types, GpuPassFull
      <3>4. /\ config' = config /\ owned' = TRUE /\ context' = context \o toks /\ pc' = "returned"
            /\ view' = [l \in Layers |-> IF l \in Prefix THEN Seen(l, dev'[l], kvPos) ELSE <<>>]
            /\ logits' = Row(IF Partial THEN "uninitialised" ELSE "computed")
            /\ config.arch = "qwen35" => ~Partial
        BY <1>11 DEF GpuPassFull, Return, adapter
      <3>5. ~Partial => \A l \in Layers : l <= config.nGpu /\ l \in Prefix
        BY ConfigsAssumption, LayersAssumption DEF IInv, Types, ConfigType, Partial, Prefix, Layers
      <3>6. GpuHolds'
        BY <3>2, <3>4 DEF GpuHolds, OnDevice
      <3>7. CpuHolds'
        <4>1. config.arch = "qwen35" => \A l \in Layers : ~(l > config.nGpu)
          BY <3>4, <3>5, ConfigsAssumption, LayersAssumption DEF IInv, Types, ConfigType, Layers
        <4> QED
          BY <3>3, <3>4, <4>1 DEF CpuHolds
      <3>8. HasRow' => SeesContext'
        BY <3>2, <3>4, <3>5 DEF HasRow, SeesContext, Row
      <3> QED
        BY <3>3, <3>4, <3>6, <3>7, <3>8 DEF Session, InPass
    <2> QED
      BY <2>1, <2>2
  <1>12. ASSUME NEW copied \in BOOLEAN, GpuPassPrefix(copied)
        PROVE  Session'
    <2>1. CASE broken' # FALSE
      BY <2>1 DEF Session
    <2>2. CASE broken' = FALSE
      <3>1. broken = FALSE /\ (copied \/ ~(pos > 0))
        BY <1>12, <2>2 DEF GpuPassPrefix, IInv, Types
      <3>2. outer = NoPass
        BY <1>12 DEF GpuPassPrefix, Eligible, IInv, Profiling
      <3>3. /\ kvPos' = Len(context \o toks)
            /\ \A l \in Layers : l <= config.nGpu =>
                  /\ Holds(config, l, dev'[l], context \o toks)
                  /\ Seen(l, dev'[l], kvPos) = context \o toks
        BY <1>12, <3>1, <3>2, GpuPass DEF GpuPassPrefix
      <3>4. /\ config' = config /\ owned' = TRUE /\ context' = context /\ pc' = "layers"
            /\ toks' = toks /\ host' = host /\ pos' = pos /\ config.arch = "qwen35"
            /\ view' = [l \in Layers |-> IF l \in Prefix THEN Seen(l, dev'[l], kvPos) ELSE <<>>]
            /\ layer' = IF copied THEN config.nGpu + 1 ELSE 1
        BY <1>12 DEF GpuPassPrefix, StartLayers, adapter, request
      <3>5. config.nGpu \in Nat /\ \A l \in Layers : l \in Nat /\ l >= 1 /\ (l <= config.nGpu => l \in Prefix)
        BY ConfigsAssumption, LayersAssumption DEF IInv, Types, ConfigType, Prefix, Layers
      <3>6. pos = Len(context) /\ CpuHolds
        BY <3>1, <3>2 DEF IInv, Session
      <3>7. ASSUME NEW l \in Layers, l >= layer'
            PROVE  Holds(config, l, host[l], context)
        <4>1. CASE copied
          <5>1. l > config.nGpu /\ pc # "layers"
            BY <1>12, <3>4, <3>5, <3>7, <4>1 DEF GpuPassPrefix
          <5>2. owned = TRUE \/ owned = FALSE
            BY DEF IInv, Types
          <5> QED
            BY <3>4, <3>6, <5>1, <5>2 DEF CpuHolds
        <4>2. CASE ~copied
          <5>1. pos = 0 /\ pc = "dispatch"
            BY <1>12, <3>1, <4>2 DEF GpuPassPrefix, IInv, Types
          <5> QED
            BY <3>1, <3>2, <5>1, FreshOnCpu
        <4> QED
          BY <4>1, <4>2
      <3>8. ASSUME NEW l \in Layers, l < layer'
            PROVE  view'[l] = context \o toks /\ l <= config.nGpu
        <4>1. l <= config.nGpu
          BY <3>4, <3>5, <3>8
        <4> QED
          BY <3>3, <3>4, <3>5, <4>1
      <3>9. GpuHolds'
        BY <3>3, <3>4 DEF GpuHolds, OnDevice
      <3> QED
        BY <3>4, <3>6, <3>7, <3>8, <3>9 DEF Session, InPass, CpuHolds, HasRow
    <2> QED
      BY <2>1, <2>2
  <1>13. ASSUME NEW late \in BOOLEAN, GpuPassFails(late)
        PROVE  Session'
    <2>1. CASE broken' # FALSE
      BY <2>1 DEF Session
    <2>2. CASE broken' = FALSE
      <3>1. /\ broken = FALSE /\ pos = 0
            /\ outer = NoPass
        <4>1. broken = FALSE /\ ~(pos > 0)
          BY <1>13, <2>2 DEF GpuPassFails, IInv, Types
        <4>2. outer = NoPass
          BY <1>13 DEF GpuPassFails, Eligible, IInv, Profiling
        <4> QED
          BY <4>1, <4>2 DEF IInv, Types
      <3>2. context = <<>> /\ \A l \in Layers : Holds(config, l, host[l], context)
        BY <1>13, <3>1, FreshOnCpu DEF GpuPassFails
      <3>3. \A l \in Layers : ~(l < 1)
        BY LayersAssumption DEF Layers
      <3> QED
        BY <1>13, <3>1, <3>2, <3>3
           DEF GpuPassFails, StartLayers, Session, GpuHolds, CpuHolds, InPass, HasRow, adapter, request
    <2> QED
      BY <2>1, <2>2
  <1>14. CASE RunLayer
    <2>1. CASE outer # NoPass
      BY <1>14, <2>1, ProfilingPass DEF RunLayer, adapter
    <2>2. CASE broken' # FALSE
      BY <2>2 DEF Session
    <2>3. CASE outer = NoPass /\ broken' = FALSE /\ aborted'
      <3>1. /\ broken = FALSE /\ owned = FALSE /\ \A l \in config.recurrent : ~(l < layer)
        BY <1>14, <2>3 DEF RunLayer, Irrevocable, IInv, Types, Profiling
      <3>2. /\ config' = config /\ context' = context /\ pc' = "returned" /\ host' = host
            /\ dev' = dev /\ pos' = pos /\ kvPos' = kvPos /\ owned' = owned /\ forceCpu' = forceCpu
            /\ logits' = Row("empty") /\ pc = "layers"
        BY <1>14, <2>3 DEF RunLayer, Return, adapter
      <3>3. /\ pos = Len(context) /\ GpuHolds /\ InPass
        BY <2>3, <3>1 DEF IInv, Session
      <3>4. ASSUME NEW l \in Layers
            PROVE  Holds(config, l, host[l], context)
        <4>1. CASE l >= layer
          BY <3>2, <3>3, <4>1 DEF InPass
        <4>2. CASE l < layer
          <5>1. l \notin config.recurrent /\ Holds(config, l, host[l], context \o toks)
            BY <3>1, <3>2, <3>3, <4>2 DEF InPass
          <5> QED
            BY <5>1, HoldsPrefix DEF IInv, Types
        <4> QED
          BY <4>1, <4>2, LayersAssumption DEF IInv, Types, Layers
      <3>5. ASSUME pos = 0, NEW l \in config.recurrent
            PROVE  host[l] = <<>>
        <4>1. l \in Layers
          BY ConfigsAssumption DEF IInv, Types, ConfigType
        <4>2. context = <<>> /\ Holds(config, l, host[l], context)
          BY <3>3, <3>4, <3>5, <4>1, EmptySeq DEF IInv, Types
        <4> QED
          BY <4>2 DEF Holds
      <3>6. GpuHolds'
        BY <3>1, <3>2, <3>3 DEF GpuHolds, OnDevice
      <3>7. CpuHolds'
        BY <3>1, <3>2, <3>4, <3>5 DEF CpuHolds
      <3>8. ~HasRow'
        BY <3>2 DEF HasRow, Row
      <3> QED
        BY <3>2, <3>3, <3>6, <3>7, <3>8 DEF Session, InPass
    <2>4. CASE outer = NoPass /\ broken' = FALSE /\ ~aborted'
      <3>1. /\ config' = config /\ context' = context /\ pc' = "layers" /\ toks' = toks
            /\ dev' = dev /\ pos' = pos /\ kvPos' = kvPos /\ owned' = owned /\ forceCpu' = forceCpu
            /\ broken = FALSE /\ pc = "layers" /\ layer' = layer + 1 /\ layer \in Layers
            /\ host' = [host EXCEPT ![layer] = Absorb(layer, host[layer], pos)]
            /\ view' = [view EXCEPT ![layer] = Seen(layer, host'[layer], pos)]
        BY <1>14, <2>4, LayersAssumption DEF RunLayer, adapter, request, IInv, Types, Layers
      <3>2. pos = Len(context) /\ GpuHolds /\ InPass
        BY <2>4, <3>1 DEF IInv, Session
      <3>3. toks \in Seq(Nat) /\ context \in Seq(Nat) /\ host \in [Layers -> Seq(Nat)] /\ DOMAIN view = Layers
        BY DEF IInv, Types
      <3>4. /\ host'[layer] = Absorb(layer, host[layer], Len(context))
            /\ view'[layer] = Seen(layer, host'[layer], Len(context))
            /\ \A l \in Layers : l # layer => host'[l] = host[l] /\ view'[l] = view[l]
        BY <3>1, <3>2, <3>3
      <3>5. /\ Holds(config, layer, host'[layer], context \o toks)
            /\ view'[layer] = context \o toks
        <4>1. host[layer] \in Seq(Nat) /\ Holds(config, layer, host[layer], context)
          BY <3>1, <3>2, <3>3 DEF InPass, Layers
        <4> QED
          BY <3>3, <3>4, <4>1, LayerRuns
      <3>6. ASSUME NEW l \in Layers, l >= layer'
            PROVE  Holds(config, l, host'[l], context)
        <4>1. l >= layer /\ l # layer
          BY <3>1, <3>6, LayersAssumption DEF Layers
        <4> QED
          BY <3>1, <3>2, <3>4, <4>1 DEF InPass
      <3>7. ASSUME NEW l \in Layers, l < layer'
            PROVE  /\ view'[l] = context \o toks
                   /\ (owned = TRUE /\ l <= config.nGpu) \/ Holds(config, l, host'[l], context \o toks)
        <4>1. CASE l = layer
          BY <3>5, <4>1
        <4>2. CASE l # layer
          <5>1. l < layer
            BY <3>1, <3>7, <4>2, LayersAssumption DEF Layers
          <5> QED
            BY <3>1, <3>2, <3>4, <4>2, <5>1 DEF InPass
        <4> QED
          BY <4>1, <4>2
      <3>8. InPass'
        <4>1. owned = TRUE => config.arch = "qwen35"
          BY <3>1, <3>2 DEF InPass
        <4> QED
          BY <3>1, <3>6, <3>7, <4>1 DEF InPass
      <3>9. GpuHolds'
        BY <3>1, <3>2 DEF GpuHolds, OnDevice
      <3> QED
        BY <3>1, <3>2, <3>8, <3>9 DEF Session, CpuHolds, HasRow
    <2> QED
      BY <2>1, <2>2, <2>3, <2>4
  <1>15. CASE LMHead
    <2>1. CASE outer # NoPass
      BY <1>15, <2>1, ProfilingPass DEF LMHead, adapter
    <2>2. CASE broken # FALSE
      BY <1>15, <2>2 DEF LMHead, Session
    <2>3. CASE outer = NoPass /\ broken = FALSE
      <3>1. /\ config' = config /\ context' = context \o toks /\ pc' = "returned"
            /\ host' = host /\ view' = view /\ dev' = dev /\ pos' = pos + Len(toks) /\ kvPos' = kvPos
            /\ owned' = owned /\ forceCpu' = forceCpu /\ pc = "layers" /\ layer > NumLayers
        BY <1>15, <2>3 DEF LMHead, Return, adapter, IInv, Profiling
      <3>2. pos = Len(context) /\ GpuHolds /\ InPass
        BY <2>3 DEF IInv, Session
      <3>3. pos' = Len(context \o toks) /\ pos' > 0
        BY <3>1, <3>2, ConcatIndex DEF IInv, Types
      <3>4. \A l \in Layers : l < layer
        BY <3>1, LayersAssumption DEF IInv, Types, Layers
      <3>5. \A l \in Layers :
               /\ view[l] = context \o toks
               /\ (owned = TRUE /\ l <= config.nGpu) \/ Holds(config, l, host[l], context \o toks)
        BY <3>1, <3>2, <3>4 DEF InPass
      <3>6. GpuHolds'
        BY <3>1, <3>2, <3>3 DEF GpuHolds, OnDevice
      <3>7. CpuHolds'
        <4>1. \A l \in Layers : l > config.nGpu => ~(l <= config.nGpu)
          BY ConfigsAssumption, LayersAssumption DEF IInv, Types, ConfigType, Layers
        <4> QED
          BY <3>1, <3>3, <3>5, <4>1 DEF CpuHolds
      <3>8. SeesContext'
        BY <3>1, <3>5 DEF SeesContext
      <3> QED
        BY <3>1, <3>3, <3>6, <3>7, <3>8 DEF Session, InPass
    <2> QED
      BY <2>1, <2>2, <2>3
  <1>16. CASE ClientResumes
    BY <1>16, QuietStep DEF IInv, ClientResumes, adapter, state
  <1>17. CASE PrefillReturns
    BY <1>17, QuietStep DEF IInv, PrefillReturns, adapter, state
  <1>18. CASE DecodeReturns
    BY <1>18, QuietStep DEF IInv, DecodeReturns, adapter, state
  <1>19. CASE Sample
    BY <1>19, QuietStep DEF IInv, Sample, adapter, state
  <1>20. CASE NextToken
    BY <1>20, QuietStep DEF IInv, NextToken, Enter, adapter, state
  <1>21. CASE UNCHANGED vars
    BY <1>21 DEF vars, adapter, request, state, IInv,
                  Session, GpuHolds, CpuHolds, InPass, OnDevice, HasRow, SeesContext
  <1> QED
    BY <1>1, <1>2, <1>3, <1>4, <1>5, <1>6, <1>7, <1>8, <1>9, <1>10, <1>11, <1>12, <1>13,
       <1>14, <1>15, <1>16, <1>17, <1>18, <1>19, <1>20, <1>21 DEF Next

LEMMA Preserved == IInv /\ [Next]_vars => IInv'
  BY TypesStep, ProfilingStep, LatchesStep, SessionStep DEF IInv

\* The strengthening: the types, the profiling pass, the latches and what the
\* engines hold of the session, in every reachable state.
THEOREM Inductive == Spec => []IInv
  BY Initial, Preserved, PTL DEF Spec

-----------------------------------------------------------------------------
\* Whatever aborts, clears, failures of the GPU on a fresh session, hand-overs
\* between the engines and profiling passes come between: the logits a caller
\* gets depend, in every layer, on the tokens of the session, each once and in
\* order, until the code gives the session up.
THEOREM LogitsFollowSession == Spec => []LogitsMatchContext
  <1>1. IInv => LogitsMatchContext
    BY DEF IInv, Types, Profiling, Session, LogitsMatchContext, HasRow
  <1> QED
    BY <1>1, Inductive, PTL

\* Between passes the position of the CPU counts the session's tokens, and the
\* GPU that owns the session stands at the same position.
THEOREM PositionsInStep == Spec => []PositionsAgree
  <1>1. IInv => PositionsAgree
    <2> SUFFICES ASSUME IInv, pc = "idle", ~broken
                 PROVE  pos = Len(context) /\ (owned /\ pos > 0 => kvPos = pos)
      BY DEF PositionsAgree
    <2>1. outer = NoPass /\ broken = FALSE
      BY DEF IInv, Types, Profiling
    <2>2. pos = Len(context) /\ GpuHolds
      BY <2>1 DEF IInv, Session
    <2>3. owned => owned = TRUE /\ forceCpu = FALSE
      BY DEF IInv, Types, Latches
    <2> QED
      BY <2>2, <2>3 DEF GpuHolds, OnDevice
  <1> QED
    BY <1>1, Inductive, PTL

\* The passes of the profiling, made with the adapter's mutex held, never go
\* back to the adapter.
THEOREM ProfilingKeepsOff == Spec => []AdapterNotReentered
  <1>1. IInv => AdapterNotReentered
    BY DEF IInv, Profiling, AdapterNotReentered, Eligible
  <1> QED
    BY <1>1, Inductive, PTL

\* A prefill comes back with logits, or with an abort that generate() sees.
Drawn ==
    /\ pc = "returned" /\ caller = "prefill" => logits.row = "computed" \/ aborted
    /\ FirstTokenFromLogits

WholeOnGpu == \A c \in Configs : c.arch # "qwen35" => c.nGpu = NumLayers

LEMMA DrawnStep ==
    ASSUME WholeOnGpu, IInv, Drawn, [Next]_vars
    PROVE  Drawn'
  <1> USE DEF IInv, WholeOnGpu
  <1>1. CASE ClearKVCache
    BY <1>1 DEF ClearKVCache, Drawn, FirstTokenFromLogits
  <1>2. CASE ArmAbortPredicate
    BY <1>2 DEF ArmAbortPredicate, Drawn, FirstTokenFromLogits
  <1>3. ASSUME NEW n \in 1 .. MaxPrompt, NEW ask \in BOOLEAN, Forward(n, ask)
        PROVE  Drawn'
    BY <1>3 DEF Forward, Enter, Drawn, FirstTokenFromLogits
  <1>4. ASSUME NEW n \in 0 .. MaxPrompt, NEW k \in BOOLEAN, Generate(n, k)
        PROVE  Drawn'
    BY <1>4 DEF Generate, Enter, Drawn, FirstTokenFromLogits
  <1>5. CASE UploadEnds
    BY <1>5 DEF UploadEnds, request, abortion, Drawn, FirstTokenFromLogits
  <1>6. CASE UploadHybrid
    BY <1>6 DEF UploadHybrid, request, abortion, Drawn, FirstTokenFromLogits
  <1>7. CASE ProfilePass
    BY <1>7 DEF ProfilePass, Drawn, FirstTokenFromLogits
  <1>8. CASE ProfileReturns
    BY <1>8 DEF ProfileReturns, Drawn, FirstTokenFromLogits
  <1>9. CASE ProfileDone
    BY <1>9 DEF ProfileDone, Drawn, FirstTokenFromLogits
  <1>10. CASE NotEligible
    BY <1>10 DEF NotEligible, StartLayers, Drawn, FirstTokenFromLogits
  <1>11. CASE GpuPassFull
    <2>1. ~Partial
      BY <1>11, LayersAssumption DEF GpuPassFull, Partial, Types
    <2> QED
      BY <1>11, <2>1 DEF GpuPassFull, Return, Row, Drawn, FirstTokenFromLogits
  <1>12. ASSUME NEW copied \in BOOLEAN, GpuPassPrefix(copied)
        PROVE  Drawn'
    BY <1>12 DEF GpuPassPrefix, StartLayers, Drawn, FirstTokenFromLogits
  <1>13. ASSUME NEW late \in BOOLEAN, GpuPassFails(late)
        PROVE  Drawn'
    BY <1>13 DEF GpuPassFails, StartLayers, Drawn, FirstTokenFromLogits
  <1>14. CASE RunLayer
    <2>1. CASE aborted'
      BY <1>14, <2>1 DEF RunLayer, Return, Drawn, FirstTokenFromLogits
    <2>2. CASE ~aborted'
      BY <1>14, <2>2 DEF RunLayer, Drawn, FirstTokenFromLogits
    <2> QED
      BY <2>1, <2>2
  <1>15. CASE LMHead
    BY <1>15 DEF LMHead, Return, Drawn, FirstTokenFromLogits
  <1>16. CASE ClientResumes
    BY <1>16 DEF ClientResumes, Drawn, FirstTokenFromLogits
  <1>17. CASE PrefillReturns
    BY <1>17 DEF Poll, PrefillReturns, Drawn, FirstTokenFromLogits
  <1>18. CASE DecodeReturns
    BY <1>18 DEF DecodeReturns, request, Drawn, FirstTokenFromLogits
  <1>19. CASE Sample
    BY <1>19 DEF Sample, Drawn, FirstTokenFromLogits
  <1>20. CASE NextToken
    BY <1>20 DEF NextToken, Enter, Drawn, FirstTokenFromLogits
  <1>21. CASE UNCHANGED vars
    BY <1>21 DEF vars, request, abortion, Drawn, FirstTokenFromLogits
  <1> QED
    BY <1>1, <1>2, <1>3, <1>4, <1>5, <1>6, <1>7, <1>8, <1>9, <1>10, <1>11, <1>12, <1>13,
       <1>14, <1>15, <1>16, <1>17, <1>18, <1>19, <1>20, <1>21 DEF Next

\* When every model but a qwen35 is on the GPU as a whole, generate() draws
\* its first token from logits a pass has computed, however the prefill ended.
THEOREM FirstTokenDrawn ==
    ASSUME WholeOnGpu
    PROVE  Spec => []FirstTokenFromLogits
  <1>1. Init => Drawn
    BY DEF Init, Drawn, FirstTokenFromLogits
  <1>2. IInv /\ Drawn /\ [Next]_vars => Drawn'
    BY DrawnStep
  <1>3. Drawn => FirstTokenFromLogits
    BY DEF Drawn
  <1> QED
    BY <1>1, <1>2, <1>3, Inductive, PTL DEF Spec

-----------------------------------------------------------------------------
(* The types, and the positions within the tokens fed.                     *)

Flags ==
    /\ asked \in BOOLEAN /\ forceCpu \in BOOLEAN /\ prune \in BOOLEAN
    /\ useless \in BOOLEAN /\ armed \in BOOLEAN /\ aborted \in BOOLEAN /\ topK \in BOOLEAN
    /\ outer.asked \in BOOLEAN
    /\ upload \in {"none", "uploaded", "unavailable"}
    /\ layer \in 1 .. NumLayers + 1
    /\ logits \in [row : {"none", "empty", "uninitialised", "computed"}, pruned : BOOLEAN]

\* What a pass is about to add to a position has been fed already, on both
\* sides, and each token given to the callback has one fed before it.
Counted ==
    /\ left \in 0 .. Prompts /\ fed \in 0 .. MaxFed
    /\ emitted \in 0 .. fed /\ kvPos \in 0 .. fed
    /\ outer = NoPass => pos <= fed
    /\ pc = "dispatch" /\ caller # "profile" => kvPos + Len(toks) <= fed
    /\ pc \in {"dispatch", "layers"} /\ caller # "profile" => pos + Len(toks) <= fed
    /\ outer # NoPass /\ outer.caller # "upload" => Len(outer.toks) <= fed
    /\ pc \in {"dispatch", "layers", "returned", "sample"} /\ caller \in {"prefill", "decode"}
         => emitted < fed
    /\ pc = "sample" => caller \in {"prefill", "decode"}
    /\ outer # NoPass /\ outer.caller \in {"prefill", "decode"} => emitted < fed

\* The tokens of the profiling are in no pass of a caller and in no context.
Numbered ==
    /\ toks \in Seq(1 .. ProfileToken)
    /\ caller # "profile" => toks \in Seq(1 .. MaxFed)
    /\ outer.toks \in Seq(1 .. MaxFed)
    /\ context \in Seq(1 .. MaxFed)

Stored == view \in Contents /\ host \in Contents /\ dev \in Contents

LEMMA SeqWiden ==
    ASSUME NEW S, NEW T, S \subseteq T, NEW s \in Seq(S)
    PROVE  s \in Seq(T)
  OBVIOUS

LEMMA StoreContents ==
    ASSUME NEW S, 0 \in S, NEW rows \in Seq(S), NEW p \in Nat, NEW t \in Seq(S)
    PROVE  Store(rows, p, t) \in Seq(S) /\ Len(Store(rows, p, t)) >= p + Len(t)
  <1> DEFINE n == IF p + Len(t) > Len(rows) THEN p + Len(t) ELSE Len(rows)
             e(i) == IF i \in p + 1 .. p + Len(t) THEN t[i - p]
                     ELSE IF i <= Len(rows) THEN rows[i] ELSE 0
  <1>1. n \in Nat /\ n >= p + Len(t) /\ n >= Len(rows) /\ Len(t) \in Nat /\ Len(rows) \in Nat
    OBVIOUS
  <1>2. Store(rows, p, t) = [i \in 1 .. n |-> e(i)]
    BY DEF Store
  <1>3. ASSUME NEW i \in 1 .. n
        PROVE  e(i) \in S
    <2>1. CASE i \in p + 1 .. p + Len(t)
      <3>1. i - p \in 1 .. Len(t)
        BY <1>1, <2>1
      <3> QED
        BY <2>1, <3>1
    <2>2. CASE i \notin p + 1 .. p + Len(t)
      BY <1>1, <2>2
    <2> QED
      BY <2>1, <2>2
  <1> HIDE DEF e, n
  <1>4. [i \in 1 .. n |-> e(i)] \in Seq(S) /\ Len([i \in 1 .. n |-> e(i)]) = n
    BY <1>1, <1>3, IsASeq
  <1> QED
    BY <1>1, <1>2, <1>4

\* A layer that takes the tokens of a pass holds tokens, and the pass has seen
\* tokens there: the rows up to its last token have all been stored.
LEMMA AbsorbContents ==
    ASSUME Numbered, NEW l \in Layers, NEW content \in Seq(0 .. ProfileToken), NEW p \in Nat
    PROVE  /\ Absorb(l, content, p) \in Seq(0 .. ProfileToken)
           /\ Seen(l, Absorb(l, content, p), p) \in Seq(0 .. ProfileToken)
  <1> DEFINE S == 0 .. ProfileToken
  <1>1. 0 \in S /\ toks \in Seq(S)
    <2>1. ProfileToken \in Nat
      BY BoundsAssumption DEF ProfileToken
    <2>2. 1 .. ProfileToken \subseteq S
      BY <2>1
    <2> HIDE DEF S
    <2>3. toks \in Seq(1 .. ProfileToken)
      BY DEF Numbered
    <2> QED
      BY <2>1, <2>2, <2>3, SeqWiden DEF S
  <1> HIDE DEF S
  <1>2. content \in Seq(S)
    BY DEF S
  <1>3. content \o toks \in Seq(S)
    BY <1>1, <1>2
  <1>4. Store(content, p, toks) \in Seq(S) /\ Len(Store(content, p, toks)) >= p + Len(toks)
    BY <1>1, <1>2, StoreContents
  <1>5. SubSeq(Store(content, p, toks), 1, p + Len(toks)) \in Seq(S)
    <2>1. Len(toks) \in Nat /\ Len(Store(content, p, toks)) \in Nat
      BY <1>1, <1>4
    <2>2. \A i \in 1 .. p + Len(toks) : Store(content, p, toks)[i] \in S
      BY <1>4, <2>1
    <2> QED
      BY <1>4, <2>1, <2>2, SubSeqProperties
  <1>6. CASE l \in config.recurrent
    BY <1>3, <1>6 DEF Absorb, Seen, S
  <1>7. CASE l \notin config.recurrent
    BY <1>4, <1>5, <1>7 DEF Absorb, Seen, S
  <1> QED
    BY <1>6, <1>7

LEMMA EnterNumbered ==
    ASSUME IInv, Counted, NEW who, NEW n \in Nat \ {0}, NEW ask, Enter(who, n, ask)
    PROVE  /\ toks' \in Seq(1 .. MaxFed) /\ toks' \in Seq(1 .. ProfileToken)
           /\ Len(toks') = n /\ fed' = fed + n /\ fed' \in 0 .. MaxFed
  <1> DEFINE e(i) == fed + i
  <1>1. fed' = fed + n /\ fed + n <= MaxFed /\ fed \in Nat /\ MaxFed \in Nat
    BY BoundsAssumption DEF Enter, Counted
  <1>2. \A i \in 1 .. n : e(i) \in 1 .. MaxFed /\ e(i) \in 1 .. ProfileToken
    BY <1>1 DEF ProfileToken
  <1>3. toks' = [i \in 1 .. n |-> e(i)]
    BY DEF Enter
  <1> HIDE DEF e
  <1>4. toks' \in Seq(1 .. MaxFed) /\ Len(toks') = n
    BY <1>2, <1>3, IsASeq
  <1>5. toks' \in Seq(1 .. ProfileToken)
    BY <1>2, <1>3, IsASeq
  <1> QED
    BY <1>1, <1>4, <1>5

LEMMA FlagsStep ==
    ASSUME IInv, Flags, [Next]_vars
    PROVE  Flags'
  <1>1. CASE ClearKVCache
    BY <1>1 DEF ClearKVCache, Cleared, adapter, request, abortion, Flags
  <1>2. CASE ArmAbortPredicate
    BY <1>2 DEF ArmAbortPredicate, adapter, request, state, Flags
  <1>3. ASSUME NEW n \in 1 .. MaxPrompt, NEW ask \in BOOLEAN, Forward(n, ask)
        PROVE  Flags'
    <2>1. prune' \in BOOLEAN
      BY <1>3 DEF Forward, Enter, Flags
    <2> QED
      BY <1>3, <2>1 DEF Forward, Enter, adapter, state, abortion, Flags
  <1>4. ASSUME NEW n \in 0 .. MaxPrompt, NEW k \in BOOLEAN, Generate(n, k)
        PROVE  Flags'
    <2>1. aborted' \in BOOLEAN /\ prune' \in BOOLEAN /\ asked' \in BOOLEAN /\ topK' \in BOOLEAN
      BY <1>4 DEF Generate, Enter, Poll, Flags
    <2> QED
      BY <1>4, <2>1 DEF Generate, Cleared, adapter, state, Flags
  <1>5. CASE UploadEnds
    BY <1>5 DEF UploadEnds, Uploading, request, state, abortion, Flags
  <1>6. CASE UploadHybrid
    <2>1. CASE config.resident
      BY <1>6, <2>1 DEF UploadHybrid, Uploading, request, abortion, Flags
    <2>2. CASE ~config.resident
      BY <1>6, <2>2 DEF UploadHybrid, Uploading, request, abortion, Flags
    <2> QED
      BY <2>1, <2>2
  <1>7. CASE ProfilePass
    BY <1>7 DEF ProfilePass, ResetCpuKVState, abortion, Flags
  <1>8. CASE ProfileReturns
    BY <1>8 DEF ProfileReturns, adapter, request, state, abortion, Flags
  <1>9. CASE ProfileDone
    <2>1. outer'.asked \in BOOLEAN
      BY <1>9 DEF ProfileDone, NoPass
    <2> QED
      BY <1>9, <2>1 DEF ProfileDone, ResetCpuKVState, abortion, Flags
  <1>10. CASE NotEligible
    BY <1>10, LayersAssumption DEF NotEligible, StartLayers, adapter, request, state, abortion, Flags
  <1>11. CASE GpuPassFull
    <2>1. logits' \in [row : {"none", "empty", "uninitialised", "computed"}, pruned : BOOLEAN]
      BY <1>11 DEF GpuPassFull, Return, Row
    <2> QED
      BY <1>11, <2>1 DEF GpuPassFull, Flags, adapter, request, abortion
  <1>12. ASSUME NEW copied \in BOOLEAN, GpuPassPrefix(copied)
        PROVE  Flags'
    <2>1. layer' \in 1 .. NumLayers + 1
      <3>1. config.nGpu \in 1 .. NumLayers
        BY ConfigsAssumption DEF IInv, Types, ConfigType, Layers
      <3> QED
        BY <1>12, <3>1, LayersAssumption DEF GpuPassPrefix, StartLayers
    <2> QED
      BY <1>12, <2>1 DEF GpuPassPrefix, StartLayers, adapter, request, abortion, Flags
  <1>13. ASSUME NEW late \in BOOLEAN, GpuPassFails(late)
        PROVE  Flags'
    BY <1>13, LayersAssumption DEF GpuPassFails, StartLayers, adapter, request, abortion, Flags
  <1>14. CASE RunLayer
    <2>1. aborted' \in BOOLEAN
      BY <1>14 DEF RunLayer, Poll
    <2>2. CASE aborted'
      <3>1. logits' \in [row : {"none", "empty", "uninitialised", "computed"}, pruned : BOOLEAN]
        <4>1. logits' = Row("empty")
          BY <1>14, <2>1, <2>2 DEF RunLayer, Return
        <4> QED
          BY <4>1 DEF Row
      <3> QED
        BY <1>14, <2>1, <2>2, <3>1 DEF RunLayer, adapter, request, Flags
    <2>3. CASE ~aborted'
      <3>1. layer' \in 1 .. NumLayers + 1
        BY <1>14, <2>3, LayersAssumption DEF RunLayer, Flags
      <3> QED
        BY <1>14, <2>1, <2>3, <3>1 DEF RunLayer, adapter, request, Flags
    <2> QED
      BY <2>2, <2>3
  <1>15. CASE LMHead
    <2>1. /\ prune' = FALSE /\ useless' \in BOOLEAN
          /\ UNCHANGED <<asked, forceCpu, armed, aborted, topK, outer, upload, layer>>
      BY <1>15 DEF LMHead, Flags, adapter, request, abortion
    <2>2. logits' \in [row : {"none", "empty", "uninitialised", "computed"}, pruned : BOOLEAN]
      BY <1>15 DEF LMHead, Return, Flags
    <2> QED
      BY <2>1, <2>2 DEF Flags
  <1>16. CASE ClientResumes
    BY <1>16 DEF ClientResumes, adapter, request, state, abortion, Flags
  <1>17. CASE PrefillReturns
    BY <1>17 DEF PrefillReturns, Poll, adapter, request, state, Flags
  <1>18. CASE DecodeReturns
    BY <1>18 DEF DecodeReturns, adapter, request, state, abortion, Flags
  <1>19. CASE Sample
    BY <1>19 DEF Sample, adapter, request, state, abortion, Flags
  <1>20. CASE NextToken
    <2>1. aborted' \in BOOLEAN /\ prune' \in BOOLEAN /\ asked' \in BOOLEAN
      BY <1>20 DEF NextToken, Enter, Poll, Flags
    <2> QED
      BY <1>20, <2>1 DEF NextToken, adapter, state, Flags
  <1>21. CASE UNCHANGED vars
    BY <1>21 DEF vars, adapter, request, state, abortion, Flags
  <1> QED
    BY <1>1, <1>2, <1>3, <1>4, <1>5, <1>6, <1>7, <1>8, <1>9, <1>10, <1>11, <1>12, <1>13,
       <1>14, <1>15, <1>16, <1>17, <1>18, <1>19, <1>20, <1>21 DEF Next
\* The bounds are numbers, and so are the counters.
LEMMA Numerals ==
    /\ MaxFed \in Nat /\ Prompts \in Nat
    /\ Counted => fed \in Nat /\ emitted \in Nat /\ kvPos \in Nat /\ left \in Nat
  BY BoundsAssumption DEF Counted

LEMMA CountedStep ==
    ASSUME IInv, Counted, [Next]_vars
    PROVE  Counted'
  <1>1. CASE ClearKVCache
    <2>1. pos' = 0 /\ kvPos' = 0 /\ pc = "idle" /\ UNCHANGED <<pc, caller, left, outer, fed, emitted>>
      BY <1>1 DEF ClearKVCache, Cleared, adapter, request
    <2> QED
      BY <2>1, Numerals DEF Counted
  <1>2. CASE ArmAbortPredicate
    BY <1>2 DEF ArmAbortPredicate, adapter, request, state, Counted
  <1>3. ASSUME NEW n \in 1 .. MaxPrompt, NEW ask \in BOOLEAN, Forward(n, ask)
        PROVE  Counted'
    <2>1. /\ Len(toks') = n /\ fed' = fed + n /\ fed' \in 0 .. MaxFed
          /\ pc' = "dispatch" /\ caller' = "client"
      BY <1>3, EnterNumbered, BoundsAssumption DEF Forward, Enter
    <2>2. outer = NoPass /\ fed \in Nat /\ n \in Nat /\ pos \in Nat /\ kvPos \in Nat
      BY <1>3, Numerals DEF Forward, IInv, Types, Profiling, Counted
    <2> QED
      BY <1>3, <2>1, <2>2 DEF Forward, adapter, state, abortion, Counted
  <1>4. ASSUME NEW n \in 0 .. MaxPrompt, NEW k \in BOOLEAN, Generate(n, k)
        PROVE  Counted'
    <2>1. outer = NoPass /\ fed \in Nat /\ n \in Nat
      BY <1>4, Numerals DEF Generate, IInv, Profiling, Counted
    <2>2. CASE ~aborted' /\ n # 0
      <3>1. Enter("prefill", n, FALSE) /\ n \in Nat \ {0}
        BY <1>4, <2>1, <2>2 DEF Generate
      <3>2. /\ Len(toks') = n /\ fed' = fed + n /\ fed' \in 0 .. MaxFed
            /\ pc' = "dispatch" /\ caller' = "prefill"
        BY <3>1, EnterNumbered DEF Enter
      <3>3. pos' = 0 /\ kvPos' = 0 /\ emitted' = 0 /\ UNCHANGED <<left, outer>>
        BY <1>4, <2>2 DEF Generate, Cleared, adapter
      <3> QED
        BY <2>1, <2>2, <3>2, <3>3 DEF Counted
    <2>3. CASE ~aborted' /\ n = 0
      <3>1. /\ pos' = 0 /\ kvPos' = 0 /\ emitted' = 0 /\ pc' = "idle"
            /\ UNCHANGED <<left, outer, fed>>
        BY <1>4, <2>3 DEF Generate, Cleared, adapter
      <3> QED
        BY <2>1, <3>1 DEF Counted
    <2>4. CASE aborted'
      BY <1>4, <2>4 DEF Generate, adapter, state, Counted
    <2> QED
      BY <2>2, <2>3, <2>4
  <1>5. CASE UploadEnds
    BY <1>5 DEF UploadEnds, Uploading, request, state, abortion, Counted
  <1>6. CASE UploadHybrid
    <2>1. CASE config.resident
      <3>1. outer = NoPass /\ caller # "profile"
        BY <1>6 DEF UploadHybrid, Uploading, Eligible, IInv, Profiling
      <3>2. /\ pc' = "profile" /\ left' = Prompts
            /\ outer' = [caller |-> IF pc = "idle" THEN "upload" ELSE caller,
                         toks |-> toks, asked |-> asked]
            /\ UNCHANGED <<fed, emitted, kvPos, caller>>
        BY <1>6, <2>1 DEF UploadHybrid, request
      <3>3. /\ outer'.caller # "none" /\ outer'.toks = toks
            /\ outer'.caller = IF pc = "idle" THEN "upload" ELSE caller
        BY <3>2 DEF IInv, Types
      <3>4. outer' # NoPass
        BY <3>3 DEF NoPass
      <3>5. outer'.caller # "upload" => pc = "dispatch"
        BY <1>6, <3>3 DEF UploadHybrid, Uploading
      <3>6. outer'.caller # "upload" => Len(toks) <= fed /\ (caller \in {"prefill", "decode"} => emitted < fed)
        <4>1. Len(toks) \in Nat /\ kvPos \in Nat
          BY DEF IInv, Types
        <4> QED
          BY <3>1, <3>5, <4>1, Numerals DEF Counted
      <3> QED
        BY <3>2, <3>3, <3>4, <3>5, <3>6, BoundsAssumption DEF Counted
    <2>2. CASE ~config.resident
      BY <1>6, <2>2 DEF UploadHybrid, Uploading, request, abortion, Counted
    <2> QED
      BY <2>1, <2>2
  <1>7. CASE ProfilePass
    <2>1. outer # NoPass
      BY <1>7 DEF ProfilePass, IInv, Profiling
    <2>2. left' \in 0 .. Prompts
      BY <1>7, Numerals DEF ProfilePass, Counted
    <2> QED
      BY <1>7, <2>1, <2>2 DEF ProfilePass, Counted
  <1>8. CASE ProfileReturns
    BY <1>8 DEF ProfileReturns, adapter, request, state, abortion, Counted
  <1>9. CASE ProfileDone
    <2>1. outer # NoPass /\ kvPos = 0
      BY <1>9 DEF ProfileDone, IInv, Profiling
    <2>2. pos' = 0 /\ outer' = NoPass /\ UNCHANGED <<left, fed, emitted, kvPos>>
      BY <1>9 DEF ProfileDone, ResetCpuKVState
    <2>3. CASE outer.caller = "upload"
      <3>1. pc' = "idle"
        BY <1>9, <2>3 DEF ProfileDone
      <3> QED
        BY <2>1, <2>2, <3>1, Numerals DEF Counted
    <2>4. CASE outer.caller # "upload"
      <3>1. pc' = "dispatch" /\ caller' = outer.caller /\ toks' = outer.toks
        BY <1>9, <2>4 DEF ProfileDone
      <3>2. Len(outer.toks) \in Nat
        BY DEF IInv, Types
      <3> QED
        BY <2>1, <2>2, <2>4, <3>1, <3>2, Numerals DEF Counted
    <2> QED
      BY <2>3, <2>4
  <1>10. CASE NotEligible
    BY <1>10 DEF NotEligible, StartLayers, adapter, request, state, abortion, Counted
  <1>11. CASE GpuPassFull
    <2>1. outer = NoPass /\ caller # "profile"
      BY <1>11 DEF GpuPassFull, Eligible, IInv, Profiling
    <2>2. kvPos' = kvPos + Len(toks) /\ pos' = pos + Len(toks)
      BY <1>11 DEF GpuPassFull, GpuRuns
    <2>3. Len(toks) \in Nat /\ pos \in Nat /\ kvPos \in Nat
      BY DEF IInv, Types
    <2>4. kvPos' \in 0 .. fed /\ pos' <= fed
      BY <1>11, <2>1, <2>2, <2>3, Numerals DEF GpuPassFull, Counted
    <2> QED
      BY <1>11, <2>1, <2>4 DEF GpuPassFull, Return, adapter, request, abortion, Counted
  <1>12. ASSUME NEW copied \in BOOLEAN, GpuPassPrefix(copied)
        PROVE  Counted'
    <2>1. outer = NoPass /\ caller # "profile"
      BY <1>12 DEF GpuPassPrefix, Eligible, IInv, Profiling
    <2>2. kvPos' = kvPos + Len(toks)
      BY <1>12 DEF GpuPassPrefix, GpuRuns
    <2>3. Len(toks) \in Nat /\ pos \in Nat /\ kvPos \in Nat
      BY DEF IInv, Types
    <2>4. kvPos' \in 0 .. fed
      BY <1>12, <2>1, <2>2, <2>3, Numerals DEF GpuPassPrefix, Counted
    <2> QED
      BY <1>12, <2>1, <2>4 DEF GpuPassPrefix, StartLayers, adapter, request, abortion, Counted
  <1>13. ASSUME NEW late \in BOOLEAN, GpuPassFails(late)
        PROVE  Counted'
    <2>1. outer = NoPass /\ caller # "profile"
      BY <1>13 DEF GpuPassFails, Eligible, IInv, Profiling
    <2>2. kvPos' = kvPos + Len(toks) \/ kvPos' = kvPos
      BY <1>13 DEF GpuPassFails, GpuRuns
    <2>3. Len(toks) \in Nat /\ pos \in Nat /\ kvPos \in Nat
      BY DEF IInv, Types
    <2>4. kvPos' \in 0 .. fed /\ Len(toks) <= fed
      BY <1>13, <2>1, <2>2, <2>3, Numerals DEF GpuPassFails, Counted
    <2>5. pos' = 0
      BY <1>13 DEF GpuPassFails
    <2> QED
      BY <1>13, <2>1, <2>3, <2>4, <2>5, Numerals DEF GpuPassFails, StartLayers, adapter, request, abortion, Counted
  <1>14. CASE RunLayer
    BY <1>14 DEF RunLayer, Return, adapter, request, Counted
  <1>15. CASE LMHead
    <2>1. outer = NoPass => caller # "profile"
      BY DEF IInv, Profiling
    <2>2. pos' = pos + Len(toks)
      BY <1>15 DEF LMHead
    <2>3. outer = NoPass => pos' <= fed
      BY <1>15, <2>1, <2>2 DEF LMHead, Counted
    <2> QED
      BY <1>15, <2>3 DEF LMHead, Return, adapter, request, abortion, Counted
  <1>16. CASE ClientResumes
    BY <1>16 DEF ClientResumes, adapter, request, state, abortion, Counted
  <1>17. CASE PrefillReturns
    BY <1>17 DEF PrefillReturns, adapter, request, state, Counted
  <1>18. CASE DecodeReturns
    BY <1>18 DEF DecodeReturns, adapter, request, state, abortion, Counted
  <1>19. CASE Sample
    <2>1. outer = NoPass
      BY <1>19 DEF Sample, IInv, Profiling
    <2>2. emitted' \in 0 .. fed
      <3>1. emitted < fed
        BY <1>19, <2>1 DEF Sample, Counted
      <3> QED
        BY <1>19, <3>1, Numerals DEF Sample, Counted
    <2> QED
      BY <1>19, <2>1, <2>2 DEF Sample, adapter, request, state, abortion, Counted
  <1>20. CASE NextToken
    <2>1. CASE pc' = "idle"
      BY <1>20, <2>1 DEF NextToken, Enter, adapter, state, Counted
    <2>2. CASE Enter("decode", 1, topK)
      <3>1. /\ Len(toks') = 1 /\ fed' = fed + 1 /\ fed' \in 0 .. MaxFed
            /\ pc' = "dispatch" /\ caller' = "decode"
        BY <2>2, EnterNumbered DEF Enter
      <3>2. outer = NoPass /\ fed \in Nat /\ pos \in Nat /\ kvPos \in Nat
        BY <1>20, Numerals DEF NextToken, IInv, Types, Profiling, Counted
      <3> QED
        BY <1>20, <3>1, <3>2 DEF NextToken, adapter, state, Counted
    <2> QED
      BY <1>20, <2>1, <2>2 DEF NextToken
  <1>21. CASE UNCHANGED vars
    BY <1>21 DEF vars, adapter, request, state, abortion, Counted
  <1> QED
    BY <1>1, <1>2, <1>3, <1>4, <1>5, <1>6, <1>7, <1>8, <1>9, <1>10, <1>11, <1>12, <1>13,
       <1>14, <1>15, <1>16, <1>17, <1>18, <1>19, <1>20, <1>21 DEF Next
LEMMA NumberedStep ==
    ASSUME IInv, Counted, Numbered, [Next]_vars
    PROVE  Numbered'
  <1>1. CASE ClearKVCache
    <2>1. <<>> \in Seq(1 .. MaxFed)
      OBVIOUS
    <2> QED
      BY <1>1, <2>1 DEF ClearKVCache, Cleared, adapter, request, Numbered
  <1>2. CASE ArmAbortPredicate
    BY <1>2 DEF ArmAbortPredicate, adapter, request, state, Numbered
  <1>3. ASSUME NEW n \in 1 .. MaxPrompt, NEW ask \in BOOLEAN, Forward(n, ask)
        PROVE  Numbered'
    <2>1. n \in Nat \ {0} /\ Enter("client", n, ask)
      BY <1>3, BoundsAssumption DEF Forward
    <2>2. toks' \in Seq(1 .. MaxFed) /\ toks' \in Seq(1 .. ProfileToken)
      BY <2>1, EnterNumbered
    <2> QED
      BY <1>3, <2>2 DEF Forward, adapter, state, Numbered
  <1>4. ASSUME NEW n \in 0 .. MaxPrompt, NEW k \in BOOLEAN, Generate(n, k)
        PROVE  Numbered'
    <2>1. <<>> \in Seq(1 .. MaxFed)
      OBVIOUS
    <2>2. CASE ~aborted' /\ n # 0
      <3>1. Enter("prefill", n, FALSE)
        BY <1>4, <2>2 DEF Generate
      <3>3. n \in Nat \ {0}
        BY <1>4, <2>2, BoundsAssumption
      <3>2. toks' \in Seq(1 .. MaxFed) /\ toks' \in Seq(1 .. ProfileToken)
        BY <3>1, <3>3, EnterNumbered
      <3> QED
        BY <1>4, <2>1, <2>2, <3>2 DEF Generate, Cleared, adapter, Numbered
    <2>3. CASE aborted' \/ n = 0
      BY <1>4, <2>1, <2>3 DEF Generate, Cleared, adapter, Numbered
    <2> QED
      BY <2>2, <2>3
  <1>5. CASE UploadEnds
    BY <1>5 DEF UploadEnds, Uploading, request, state, abortion, Numbered
  <1>6. CASE UploadHybrid
    <2>1. CASE config.resident
      <3>1. caller # "profile" /\ outer'.toks = toks /\ UNCHANGED <<toks, caller, context>>
        BY <1>6, <2>1 DEF UploadHybrid, Uploading, Eligible, request, IInv, Profiling
      <3> QED
        BY <3>1 DEF Numbered
    <2>2. CASE ~config.resident
      BY <1>6, <2>2 DEF UploadHybrid, Uploading, request, Numbered
    <2> QED
      BY <2>1, <2>2
  <1>7. CASE ProfilePass
    <2>1. ProfilePrompt \in Seq(1 .. ProfileToken)
      BY BoundsAssumption DEF ProfilePrompt, ProfileToken
    <2> QED
      BY <1>7, <2>1 DEF ProfilePass, Numbered
  <1>8. CASE ProfileReturns
    BY <1>8 DEF ProfileReturns, adapter, request, state, abortion, Numbered
  <1>9. CASE ProfileDone
    <2>1. NoPass.toks \in Seq(1 .. MaxFed)
      BY DEF NoPass
    <2>2. 1 .. MaxFed \subseteq 1 .. ProfileToken
      BY BoundsAssumption DEF ProfileToken
    <2>3. outer.toks \in Seq(1 .. MaxFed) /\ outer.toks \in Seq(1 .. ProfileToken)
      BY <2>2, SeqWiden DEF Numbered
    <2> QED
      BY <1>9, <2>1, <2>3 DEF ProfileDone, Numbered
  <1>10. CASE NotEligible
    BY <1>10 DEF NotEligible, StartLayers, adapter, request, state, abortion, Numbered
  <1>11. CASE GpuPassFull
    <2>1. caller # "profile"
      BY <1>11 DEF GpuPassFull, Eligible, IInv, Profiling
    <2>2. context \o toks \in Seq(1 .. MaxFed)
      BY <2>1 DEF Numbered
    <2> QED
      BY <1>11, <2>1, <2>2 DEF GpuPassFull, adapter, request, Numbered
  <1>12. ASSUME NEW copied \in BOOLEAN, GpuPassPrefix(copied)
        PROVE  Numbered'
    BY <1>12 DEF GpuPassPrefix, StartLayers, adapter, request, abortion, Numbered
  <1>13. ASSUME NEW late \in BOOLEAN, GpuPassFails(late)
        PROVE  Numbered'
    BY <1>13 DEF GpuPassFails, StartLayers, adapter, request, abortion, Numbered
  <1>14. CASE RunLayer
    BY <1>14 DEF RunLayer, Return, adapter, request, Numbered
  <1>15. CASE LMHead
    <2>1. caller # "profile" => context \o toks \in Seq(1 .. MaxFed)
      BY DEF Numbered
    <2> QED
      BY <1>15, <2>1 DEF LMHead, adapter, request, Numbered
  <1>16. CASE ClientResumes
    BY <1>16 DEF ClientResumes, adapter, request, state, abortion, Numbered
  <1>17. CASE PrefillReturns
    BY <1>17 DEF PrefillReturns, adapter, request, state, Numbered
  <1>18. CASE DecodeReturns
    BY <1>18 DEF DecodeReturns, adapter, request, state, abortion, Numbered
  <1>19. CASE Sample
    BY <1>19 DEF Sample, adapter, request, state, abortion, Numbered
  <1>20. CASE NextToken
    <2>1. CASE pc' = "idle"
      BY <1>20, <2>1 DEF NextToken, Enter, adapter, Numbered
    <2>2. CASE Enter("decode", 1, topK)
      <3>1. toks' \in Seq(1 .. MaxFed) /\ toks' \in Seq(1 .. ProfileToken)
        BY <2>2, EnterNumbered
      <3> QED
        BY <1>20, <3>1 DEF NextToken, adapter, Numbered
    <2> QED
      BY <1>20, <2>1, <2>2 DEF NextToken
  <1>21. CASE UNCHANGED vars
    BY <1>21 DEF vars, adapter, request, state, abortion, Numbered
  <1> QED
    BY <1>1, <1>2, <1>3, <1>4, <1>5, <1>6, <1>7, <1>8, <1>9, <1>10, <1>11, <1>12, <1>13,
       <1>14, <1>15, <1>16, <1>17, <1>18, <1>19, <1>20, <1>21 DEF Next

LEMMA NothingStored == Nothing \in Contents
  BY DEF Nothing, Contents

\* The layers of the GPU hold tokens after they ran, and the pass has seen
\* tokens in each of them.
LEMMA GpuRunsStored ==
    ASSUME IInv, Numbered, Stored, GpuRuns
    PROVE  /\ dev' \in Contents
           /\ [l \in Layers |-> IF l \in Prefix THEN Seen(l, dev'[l], kvPos) ELSE <<>>] \in Contents
  <1>1. kvPos \in Nat /\ \A l \in Layers : dev[l] \in Seq(0 .. ProfileToken)
    BY DEF IInv, Types, Stored, Contents
  <1>2. \A l \in Layers : /\ Absorb(l, dev[l], kvPos) \in Seq(0 .. ProfileToken)
                          /\ Seen(l, Absorb(l, dev[l], kvPos), kvPos) \in Seq(0 .. ProfileToken)
    BY <1>1, AbsorbContents
  <1>3. dev' = [l \in Layers |-> IF l \in Prefix THEN Absorb(l, dev[l], kvPos) ELSE dev[l]]
    BY DEF GpuRuns
  <1>4. \A l \in Layers : l \in Prefix => Seen(l, dev'[l], kvPos) \in Seq(0 .. ProfileToken)
    BY <1>2, <1>3
  <1>5. dev' \in Contents
    BY <1>1, <1>2, <1>3 DEF Contents
  <1>6. <<>> \in Seq(0 .. ProfileToken)
    OBVIOUS
  <1> QED
    BY <1>4, <1>5, <1>6 DEF Contents

LEMMA StoredStep ==
    ASSUME IInv, Numbered, Stored, [Next]_vars
    PROVE  Stored'
  <1>1. CASE ClearKVCache
    <2>1. Nothing \in Contents
      BY NothingStored
    <2> QED
      BY <1>1, <2>1 DEF ClearKVCache, Cleared, Stored
  <1>2. CASE ArmAbortPredicate
    BY <1>2 DEF ArmAbortPredicate, adapter, request, state, Stored
  <1>3. ASSUME NEW n \in 1 .. MaxPrompt, NEW ask \in BOOLEAN, Forward(n, ask)
        PROVE  Stored'
    BY <1>3 DEF Forward, Enter, adapter, state, abortion, Stored
  <1>4. ASSUME NEW n \in 0 .. MaxPrompt, NEW k \in BOOLEAN, Generate(n, k)
        PROVE  Stored'
    <2>1. Nothing \in Contents
      BY NothingStored
    <2>2. CASE aborted'
      BY <1>4, <2>2 DEF Generate, state, Stored
    <2>3. CASE ~aborted'
      BY <1>4, <2>1, <2>3 DEF Generate, Cleared, Stored
    <2> QED
      BY <2>2, <2>3
  <1>5. CASE UploadEnds
    BY <1>5 DEF UploadEnds, Uploading, request, state, abortion, Stored
  <1>6. CASE UploadHybrid
    BY <1>6 DEF UploadHybrid, Uploading, request, abortion, Stored
  <1>7. CASE ProfilePass
    <2>1. Nothing \in Contents
      BY NothingStored
    <2> QED
      BY <1>7, <2>1 DEF ProfilePass, ResetCpuKVState, Stored
  <1>8. CASE ProfileReturns
    BY <1>8 DEF ProfileReturns, adapter, request, state, abortion, Stored
  <1>9. CASE ProfileDone
    <2>1. Nothing \in Contents
      BY NothingStored
    <2> QED
      BY <1>9, <2>1 DEF ProfileDone, ResetCpuKVState, Stored
  <1>10. CASE NotEligible
    BY <1>10 DEF NotEligible, StartLayers, adapter, request, state, abortion, Stored
  <1>11. CASE GpuPassFull
    <2>1. dev' \in Contents
      BY <1>11, GpuRunsStored DEF GpuPassFull
    <2>2. view' \in Contents
      BY <1>11, GpuRunsStored DEF GpuPassFull
    <2> QED
      BY <1>11, <2>1, <2>2 DEF GpuPassFull, Stored
  <1>12. ASSUME NEW copied \in BOOLEAN, GpuPassPrefix(copied)
        PROVE  Stored'
    <2>1. dev' \in Contents
      BY <1>12, GpuRunsStored DEF GpuPassPrefix
    <2>2. view' \in Contents
      BY <1>12, GpuRunsStored DEF GpuPassPrefix
    <2> QED
      BY <1>12, <2>1, <2>2 DEF GpuPassPrefix, Stored
  <1>13. ASSUME NEW late \in BOOLEAN, GpuPassFails(late)
        PROVE  Stored'
    <2>1. dev' \in Contents
      BY <1>13, GpuRunsStored DEF GpuPassFails, Stored
    <2> QED
      BY <1>13, <2>1 DEF GpuPassFails, Stored
  <1>14. CASE RunLayer
    <2>1. CASE aborted'
      BY <1>14, <2>1 DEF RunLayer, Stored
    <2>2. CASE ~aborted'
      <3>1. layer \in Layers /\ pos \in Nat /\ host[layer] \in Seq(0 .. ProfileToken)
        BY <1>14, LayersAssumption DEF RunLayer, IInv, Types, Stored, Contents, Layers
      <3>2. PICK c : c = Absorb(layer, host[layer], pos)
        OBVIOUS
      <3>3. c \in Seq(0 .. ProfileToken) /\ Seen(layer, c, pos) \in Seq(0 .. ProfileToken)
        BY <3>1, <3>2, AbsorbContents
      <3>4. host' = [host EXCEPT ![layer] = c] /\ view' = [view EXCEPT ![layer] = Seen(layer, host'[layer], pos)]
            /\ dev' = dev
        BY <1>14, <2>2, <3>2 DEF RunLayer
      <3>5. host'[layer] = c
        BY <3>1, <3>4 DEF Stored, Contents
      <3>6. view' = [view EXCEPT ![layer] = Seen(layer, c, pos)]
        BY <3>4, <3>5
      <3> QED
        BY <3>1, <3>3, <3>4, <3>6 DEF Stored, Contents
    <2> QED
      BY <2>1, <2>2
  <1>15. CASE LMHead
    BY <1>15 DEF LMHead, Return, adapter, request, abortion, Stored
  <1>16. CASE ClientResumes
    BY <1>16 DEF ClientResumes, adapter, request, state, abortion, Stored
  <1>17. CASE PrefillReturns
    BY <1>17 DEF PrefillReturns, adapter, request, state, Stored
  <1>18. CASE DecodeReturns
    BY <1>18 DEF DecodeReturns, adapter, request, state, abortion, Stored
  <1>19. CASE Sample
    BY <1>19 DEF Sample, adapter, request, state, abortion, Stored
  <1>20. CASE NextToken
    BY <1>20 DEF NextToken, Enter, adapter, state, Stored
  <1>21. CASE UNCHANGED vars
    BY <1>21 DEF vars, adapter, request, state, abortion, Stored
  <1> QED
    BY <1>1, <1>2, <1>3, <1>4, <1>5, <1>6, <1>7, <1>8, <1>9, <1>10, <1>11, <1>12, <1>13,
       <1>14, <1>15, <1>16, <1>17, <1>18, <1>19, <1>20, <1>21 DEF Next

LEMMA TypesInitial == Init => Flags /\ Counted /\ Numbered /\ Stored
  <1> SUFFICES ASSUME Init
               PROVE  Flags /\ Counted /\ Numbered /\ Stored
    OBVIOUS
  <1>1. Flags
    <2>1. outer.asked = FALSE /\ logits.row = "none" /\ 1 \in 1 .. NumLayers + 1
      BY LayersAssumption DEF Init, NoPass, NoLogits
    <2> QED
      BY <2>1 DEF Init, NoLogits, Flags
  <1>2. Counted
    BY BoundsAssumption DEF Init, Counted
  <1>3. Numbered
    <2>1. \A S : <<>> \in Seq(S)
      OBVIOUS
    <2> QED
      BY <2>1 DEF Init, NoPass, Numbered
  <1>4. Stored
    BY NothingStored DEF Init, Stored
  <1> QED
    BY <1>1, <1>2, <1>3, <1>4

\* Every variable has its type in every reachable state; in particular no
\* position, of the CPU or the GPU, passes the tokens fed, whatever fails, and
\* every layer holds only tokens and rows that were never written.
THEOREM TypeCorrect == Spec => []TypeOK
  <1>1. IInv /\ Flags /\ Counted /\ Numbered /\ Stored /\ [Next]_vars
          => Flags' /\ Counted' /\ Numbered' /\ Stored'
    BY FlagsStep, CountedStep, NumberedStep, StoredStep
  <1>2. IInv /\ Flags /\ Counted /\ Numbered /\ Stored => TypeOK
    <2> SUFFICES ASSUME IInv, Flags, Counted, Numbered, Stored
                 PROVE  TypeOK
      OBVIOUS
    <2>1. emitted \in 0 .. MaxFed
      BY Numerals DEF Counted
    <2>2. outer = NoPass => pos \in 0 .. fed
      BY Numerals DEF Counted, IInv, Types
    <2>3. {asked, owned, forceCpu, prune, useless, armed, aborted, topK, broken} \subseteq BOOLEAN
      BY DEF Flags, IInv, Types
    <2> QED
      BY <2>1, <2>2, <2>3 DEF TypeOK, IInv, Types, Flags, Counted, Numbered, Stored
  <1> QED
    BY <1>1, <1>2, TypesInitial, Inductive, PTL DEF Spec
=============================================================================
