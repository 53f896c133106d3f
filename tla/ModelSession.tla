---------------------------- MODULE ModelSession ----------------------------
(***************************************************************************)
(* A session of the model: forward(), generate(), clearKVCache() and the   *)
(* cooperative abort (ModelForward.cpp, ModelGeneration.cpp, ModelLoad.cpp)*)
(* over two engines that each keep the state of some layers: the CPU side, *)
(* whose position is kvCache_.pos, and the GPU engine, whose position is   *)
(* kvPos_ (GPUComputeMoE.cu, GPUComputeForward.cu).                        *)
(*                                                                         *)
(* Tokens are numbered in the order they are fed, so that the content of a *)
(* layer's state is the sequence of tokens it holds.  An attention layer   *)
(* stores the tokens of a pass at its position and attends to the rows up  *)
(* to there; a recurrent (gated delta net) layer folds them into a state   *)
(* that nothing but a reset takes them out of again.  What the logits of a *)
(* pass depend on is, per layer, the sequence the layer has seen.          *)
(*                                                                         *)
(* The session has one thread; what interleaves with it is the abort       *)
(* predicate, asked between layers and between tokens, and the GPU engine, *)
(* which may fail in any pass.                                             *)
(*                                                                         *)
(* The first GPU pass uploads the model (ModelGPU.cpp).  When a MoE model   *)
(* fits only with its experts on the CPU, the adapter may profile it, with *)
(* its mutex held: it calls forward() again, on the CPU, for a few prompts *)
(* of its own, and then lets the pass that waited go on.                   *)
(*                                                                         *)
(* Not modelled: the values of the logits, the sampler and its RNG, and a  *)
(* session longer than the cache (maxSeqLen): no code looks at that limit. *)
(***************************************************************************)
EXTENDS Naturals, Sequences

CONSTANTS
    NumLayers,  \* config_.numLayers
    Configs,    \* the models and settings to consider, see ConfigType
    MaxPrompt,  \* bound: tokens of a prompt
    MaxTokens,  \* params.maxTokens
    MaxFed,     \* bound: tokens fed to forward() altogether
    Prompts     \* bound: prompts of the profiling pass

Layers == 1 .. NumLayers
Archs == {"qwen2", "qwen35", "qwen35moe", "other"}
ConfigType == [arch : Archs,
               recurrent : SUBSET Layers,  \* the gated-delta-net layers
               nGpu : Layers,              \* layers the GPU engine owns
               gpu : BOOLEAN,              \* gpuEnabled()
               bounds : BOOLEAN,           \* a separate LM head with bounds
               supported : BOOLEAN,        \* every tensor type has a kernel
               resident : BOOLEAN]         \* TINYCODER_MOE_RESIDENT applies

ASSUME LayersAssumption == NumLayers \in Nat \ {0}
\* The adapter offloads all layers of a qwen35moe model or none.
ASSUME ConfigsAssumption ==
    /\ Configs \subseteq ConfigType
    /\ \A c \in Configs : c.arch = "qwen35moe" => c.nGpu = NumLayers
ASSUME BoundsAssumption ==
    MaxPrompt \in Nat /\ MaxTokens \in Nat /\ MaxFed \in Nat /\ Prompts \in Nat

VARIABLES
    config,     \* the loaded model and the environment; never changes
    pc,         \* where the thread is
    caller,     \* who called forward(): client, prefill, decode or profile
    toks,       \* tokens of the pass
    asked,      \* the caller of this pass asked for top-K pruning
    layer,      \* the next CPU layer of the pass
    view,       \* per layer, the tokens the pass has seen there
    logits,     \* the array the last pass returned
    pos,        \* kvCache_.pos
    host,       \* per layer, the content of the CPU-side state
    kvPos,      \* kvPos_ of the GPU engine
    dev,        \* per layer, the content of the GPU-side state
    owned,      \* gpuSessionActive_
    forceCpu,   \* forceCpuForward_
    upload,     \* the adapter's uploaded_ and gpuUnavailable_
    outer,      \* the pass that waits for the upload, whose thread holds mtx_
    left,       \* prompts the profiling pass has left
    prune,      \* pendingPruneActive_
    useless,    \* lmHeadPruneUseless_
    armed,      \* abortPredicate_ is set
    aborted,    \* aborted_
    topK,       \* the generate call prunes its decode passes
    emitted,    \* tokens the generate call has given to its callback
    fed,        \* tokens numbered so far
    context,    \* the tokens a caller was given logits for since the reset
    broken      \* the session lost or doubled part of its context

state == <<pos, host, kvPos, dev, owned, forceCpu>>
request == <<caller, toks, asked, topK>>
abortion == <<armed, aborted>>
adapter == <<config, upload, outer, left>>
vars == <<adapter, pc, request, layer, view, logits, state, prune, useless,
          abortion, emitted, fed, context, broken>>

-----------------------------------------------------------------------------
Nothing == [l \in Layers |-> <<>>]
Prefix == 1 .. config.nGpu
Partial == config.nGpu < NumLayers

\* forward(): the GPU takes a session from its first token, or keeps it.
Eligible == /\ ~forceCpu /\ config.gpu
            /\ config.arch \in {"qwen2", "qwen35", "qwen35moe"}
            /\ pos = 0 \/ owned

\* Rows of an attention layer after tokens t were stored at position p;
\* 0 is a row that was never written.
Store(rows, p, t) ==
    [i \in 1 .. (IF p + Len(t) > Len(rows) THEN p + Len(t) ELSE Len(rows)) |->
        IF i \in p + 1 .. p + Len(t) THEN t[i - p]
        ELSE IF i <= Len(rows) THEN rows[i] ELSE 0]
\* The content of layer l after the pass ran it at position p, and what the
\* pass saw there.
Absorb(l, content, p) ==
    IF l \in config.recurrent THEN content \o toks ELSE Store(content, p, toks)
Seen(l, content, p) ==
    IF l \in config.recurrent THEN content
    ELSE SubSeq(content, 1, p + Len(toks))

\* abortRequested(): the first true answer of the predicate is latched.
Poll == IF aborted THEN {TRUE} ELSE IF armed THEN BOOLEAN ELSE {FALSE}

\* The profiling prompts' token, and their length: more than one.
ProfileToken == MaxFed + 1
ProfilePrompt == <<ProfileToken, ProfileToken>>
NoPass == [caller |-> "none", toks |-> <<>>, asked |-> FALSE]

NoLogits == [row |-> "none", pruned |-> FALSE]
Row(kind) == [row |-> kind, pruned |-> FALSE]

Init ==
    /\ config \in Configs
    /\ pc = "idle" /\ caller = "client"
    /\ toks = <<>> /\ asked = FALSE /\ layer = 1
    /\ view = Nothing /\ logits = NoLogits
    /\ pos = 0 /\ host = Nothing /\ kvPos = 0 /\ dev = Nothing
    /\ owned = FALSE /\ forceCpu = FALSE
    /\ upload = "none" /\ outer = NoPass /\ left = 0
    /\ prune = FALSE /\ useless = FALSE
    /\ armed = FALSE /\ aborted = FALSE
    /\ topK = FALSE /\ emitted = 0
    /\ fed = 0 /\ context = <<>> /\ broken = FALSE

-----------------------------------------------------------------------------
(* Entry points.                                                           *)

\* Slip: the recurrent state of the CPU layers survives.
ClearedKeepsRecurrent ==
    /\ pos' = 0
    /\ host' = [l \in Layers |-> IF l \in config.recurrent THEN host[l] ELSE <<>>]
    /\ kvPos' = 0 /\ dev' = Nothing
    /\ UNCHANGED <<owned, forceCpu>>
    /\ context' = <<>> /\ broken' = FALSE

\* clearKVCache(): both engines; neither gpuSessionActive_ nor
\* forceCpuForward_ is touched.
Cleared ==
    /\ pos' = 0 /\ host' = Nothing
    /\ kvPos' = 0 /\ dev' = Nothing
    /\ UNCHANGED <<owned, forceCpu>>
    /\ context' = <<>> /\ broken' = FALSE

ClearKVCache ==
    /\ pc = "idle"
    /\ Cleared
    /\ UNCHANGED <<adapter, pc, request, layer, view, logits, prune, useless,
                   abortion, emitted, fed>>

\* forward(tokens) of n tokens; with a request for pruning, the overload that
\* arms it first.
Enter(who, n, ask) ==
    /\ fed + n <= MaxFed
    /\ toks' = [i \in 1 .. n |-> fed + i] /\ fed' = fed + n
    /\ caller' = who /\ asked' = ask
    /\ prune' = (prune \/ ask)
    /\ pc' = "dispatch"

\* forward() called directly; forward({}) returns at once and is left out.
Forward(n, ask) ==
    /\ pc = "idle"
    /\ ask => n = 1
    /\ Enter("client", n, ask)
    /\ UNCHANGED <<adapter, layer, view, logits, state, useless, abortion, topK,
                   emitted, context, broken>>

\* armAbortPredicate(pred), with a predicate or with nullptr.
ArmAbortPredicate ==
    /\ pc = "idle"
    /\ armed' \in BOOLEAN /\ aborted' = FALSE
    /\ UNCHANGED <<adapter, pc, request, layer, view, logits, state, prune,
                   useless, emitted, fed, context, broken>>

\* generate(): an abort that is already requested wins; else the caches are
\* cleared and the prompt (which may come out empty) is fed.
Generate(n, k) ==
    /\ pc = "idle"
    /\ aborted' \in Poll
    /\ IF aborted'
       THEN UNCHANGED <<pc, caller, toks, asked, topK, state, prune, emitted,
                        fed, context, broken>>
       ELSE /\ Cleared
            /\ topK' = k /\ emitted' = 0
            /\ IF n = 0
               THEN UNCHANGED <<pc, caller, toks, asked, prune, fed>>
               ELSE Enter("prefill", n, FALSE)
    /\ UNCHANGED <<adapter, layer, view, logits, useless, armed>>

-----------------------------------------------------------------------------
(* The adapter: the upload before the first GPU pass, and the profiling.   *)

\* gpuForward() or gpuUploadIfEnabled() finds the model not yet uploaded.
Uploading ==
    /\ \/ pc = "dispatch" /\ Eligible
       \/ pc = "idle" /\ config.gpu
    /\ upload = "none" /\ config.supported

\* The upload fits, or never will: the failure is latched.  Either way the
\* pass that asked for it goes on.
UploadEnds ==
    /\ Uploading
    /\ upload' \in {"uploaded", "unavailable"}
    /\ UNCHANGED <<config, outer, left, pc, request, layer, view, logits, state,
                   prune, useless, abortion, emitted, fed, context, broken>>

\* Slip: the profiling passes are not kept on the CPU.
UploadHybridUnforced ==
    /\ Uploading /\ config.arch = "qwen35moe"
    /\ upload' = "uploaded"
    /\ IF config.resident
       THEN /\ pc' = "profile" /\ left' = Prompts
            /\ outer' = [caller |-> IF pc = "idle" THEN "upload" ELSE caller,
                         toks |-> toks, asked |-> asked]
       ELSE UNCHANGED <<pc, left, outer>>
    /\ UNCHANGED <<config, request, layer, view, logits, state, prune, useless,
                   abortion, emitted, fed, context, broken>>

\* The full upload does not fit, the retry with the experts on the CPU does;
\* the profiling that may follow keeps its passes off the GPU.
UploadHybrid ==
    /\ Uploading /\ config.arch = "qwen35moe"
    /\ upload' = "uploaded"
    /\ IF config.resident
       THEN /\ pc' = "profile" /\ left' = Prompts
            /\ outer' = [caller |-> IF pc = "idle" THEN "upload" ELSE caller,
                         toks |-> toks, asked |-> asked]
            /\ forceCpu' = TRUE
       ELSE UNCHANGED <<pc, left, outer, forceCpu>>
    /\ UNCHANGED <<config, request, layer, view, logits, pos, host, kvPos, dev,
                   owned, prune, useless, abortion, emitted, fed, context,
                   broken>>

\* resetCpuKVState(): the CPU side of clearKVCache().
ResetCpuKVState == pos' = 0 /\ host' = Nothing

\* A prompt of the profiling pass: forward(), on a reset CPU side.
ProfilePass ==
    /\ pc = "profile" /\ left > 0
    /\ left' = left - 1
    /\ ResetCpuKVState
    /\ caller' = "profile" /\ toks' = ProfilePrompt /\ asked' = FALSE
    /\ pc' = "dispatch"
    /\ UNCHANGED <<config, upload, outer, layer, view, logits, kvPos, dev,
                   owned,
                   forceCpu, prune, useless, abortion, topK, emitted, fed,
                   context, broken>>

\* Slip: the last prompt stays in the CPU side.
ProfileDoneUnreset ==
    /\ pc = "profile" /\ left = 0
    /\ forceCpu' = FALSE
    /\ IF outer.caller = "upload"
       THEN pc' = "idle" /\ caller' = "client"
       ELSE pc' = "dispatch" /\ caller' = outer.caller
    /\ toks' = outer.toks /\ asked' = outer.asked
    /\ outer' = NoPass
    /\ UNCHANGED <<config, upload, left, layer, view, logits, pos, host, kvPos,
                   dev, owned, prune, useless, abortion, topK, emitted, fed,
                   context, broken>>

\* The profiling ends and the pass that waited goes to the GPU.
ProfileDone ==
    /\ pc = "profile" /\ left = 0
    /\ forceCpu' = FALSE
    /\ ResetCpuKVState
    /\ IF outer.caller = "upload"
       THEN pc' = "idle" /\ caller' = "client"
       ELSE pc' = "dispatch" /\ caller' = outer.caller
    /\ toks' = outer.toks /\ asked' = outer.asked
    /\ outer' = NoPass
    /\ UNCHANGED <<config, upload, left, layer, view, logits, kvPos, dev, owned,
                   prune, useless, abortion, topK, emitted, fed, context,
                   broken>>

-----------------------------------------------------------------------------
(* forward(): the dispatch to the GPU.                                     *)

StartLayers(l) == pc' = "layers" /\ layer' = l
Return(result) == pc' = "returned" /\ logits' = result

NotEligible ==
    /\ pc = "dispatch" /\ ~Eligible
    /\ StartLayers(1)
    /\ UNCHANGED <<adapter, request, view, logits, state, prune, useless,
                   abortion, emitted, fed, context, broken>>

\* The layers of the GPU run, kvPos_ advances.
GpuRuns ==
    /\ dev' = [l \in Layers |->
                 IF l \in Prefix THEN Absorb(l, dev[l], kvPos) ELSE dev[l]]
    /\ kvPos' = kvPos + Len(toks)

\* The whole model is on the device (or the host believes so: a qwen2 model
\* under TINYCODER_NGL, whose GPU pass stops early and writes no logits).
GpuPassFull ==
    /\ pc = "dispatch" /\ Eligible /\ upload = "uploaded"
    /\ config.arch = "qwen35" => ~Partial
    /\ GpuRuns
    /\ view' = [l \in Layers |->
                  IF l \in Prefix THEN Seen(l, dev'[l], kvPos) ELSE <<>>]
    /\ pos' = pos + Len(toks)
    /\ owned' = TRUE
    /\ Return(Row(IF Partial THEN "uninitialised" ELSE "computed"))
    /\ context' = context \o toks
    /\ UNCHANGED <<adapter, request, layer, host, forceCpu, prune, useless,
                   abortion, emitted, fed, broken>>

\* The slip the code warns of: the position advances before the CPU layers run.
GpuPassPrefixAdvances(copied) ==
    /\ pc = "dispatch" /\ Eligible /\ upload = "uploaded"
    /\ config.arch = "qwen35" /\ Partial
    /\ GpuRuns
    /\ view' = [l \in Layers |->
                  IF l \in Prefix THEN Seen(l, dev'[l], kvPos) ELSE <<>>]
    /\ pos' = pos + Len(toks) /\ owned' = TRUE
    /\ StartLayers(IF copied THEN config.nGpu + 1 ELSE 1)
    /\ broken' = (broken \/ (~copied /\ pos > 0))
    /\ UNCHANGED <<adapter, request, logits, host, forceCpu, prune, useless,
                   abortion, emitted, fed, context>>

\* qwen35 with a prefix on the device: the CPU goes on from its hidden state,
\* or, when that cannot be copied back, runs the whole model itself.
GpuPassPrefix(copied) ==
    /\ pc = "dispatch" /\ Eligible /\ upload = "uploaded"
    /\ config.arch = "qwen35" /\ Partial
    /\ GpuRuns
    /\ view' = [l \in Layers |->
                  IF l \in Prefix THEN Seen(l, dev'[l], kvPos) ELSE <<>>]
    /\ owned' = TRUE
    /\ StartLayers(IF copied THEN config.nGpu + 1 ELSE 1)
    /\ broken' = (broken \/ (~copied /\ pos > 0))
    /\ UNCHANGED <<adapter, request, logits, pos, host, forceCpu, prune,
                   useless,
                   abortion, emitted, fed, context>>

\* The pass fails, without a model on the device, before its layers ran or
\* (the LM head) after kvPos_ has advanced.  The CPU takes over for good, from
\* position 0.
GpuPassFails(late) ==
    /\ pc = "dispatch" /\ Eligible
    /\ upload = "none" => ~config.supported
    /\ late => upload = "uploaded"
    /\ IF late /\ ~Partial THEN GpuRuns ELSE UNCHANGED <<dev, kvPos>>
    /\ owned' = FALSE /\ forceCpu' = TRUE
    /\ pos' = 0
    /\ StartLayers(1)
    /\ broken' = (broken \/ pos > 0)
    /\ UNCHANGED <<adapter, request, view, logits, host, prune, useless,
                   abortion, emitted, fed, context>>

-----------------------------------------------------------------------------
(* forward(): the CPU layers and the shared tail.                          *)

\* The pass has changed state that a later pass will not overwrite.
Irrevocable == owned \/ \E l \in config.recurrent : l < layer

\* One layer, unless an abort is requested: then an empty array is returned
\* and kvCache_.pos stays where it was.
RunLayer ==
    /\ pc = "layers" /\ layer <= NumLayers
    /\ aborted' \in Poll
    /\ IF aborted'
       THEN /\ Return(Row("empty"))
            /\ broken' = (broken \/ (caller # "profile" /\ Irrevocable))
            /\ UNCHANGED <<layer, host, view>>
       ELSE /\ host' = [host EXCEPT ![layer] = Absorb(layer, @, pos)]
            /\ view' = [view EXCEPT ![layer] = Seen(layer, host'[layer], pos)]
            /\ layer' = layer + 1
            /\ UNCHANGED <<pc, logits, broken>>
    /\ UNCHANGED <<adapter, request, pos, kvPos, dev, owned, forceCpu, prune,
                   useless, armed, emitted, fed, context>>

\* Final norm, LM head (pruned if a request is pending and the pass has one
\* token), the position; the pending request is consumed.  The first pruning
\* that does not shrink the vocabulary is the last one.
LMHead ==
    /\ pc = "layers" /\ layer > NumLayers
    /\ LET pruned == prune /\ ~useless /\ Len(toks) = 1 /\ config.bounds
       IN  /\ Return([row |-> "computed", pruned |-> pruned])
           /\ useless' \in IF pruned THEN BOOLEAN ELSE {useless}
    /\ pos' = pos + Len(toks)
    /\ prune' = FALSE
    /\ context' = IF caller = "profile" THEN context ELSE context \o toks
    /\ UNCHANGED <<adapter, request, layer, view, host, kvPos, dev, owned,
                   forceCpu, abortion, emitted, fed, broken>>

-----------------------------------------------------------------------------
(* The callers.                                                            *)

ClientResumes ==
    /\ pc = "returned" /\ caller = "client"
    /\ pc' = "idle"
    /\ UNCHANGED <<adapter, request, layer, view, logits, state, prune, useless,
                   abortion, emitted, fed, context, broken>>

ProfileReturns ==
    /\ pc = "returned" /\ caller = "profile"
    /\ pc' = "profile"
    /\ UNCHANGED <<adapter, request, layer, view, logits, state, prune, useless,
                   abortion, emitted, fed, context, broken>>

\* Slip: generate() goes on to sample after any prefill.
PrefillReturnsUnchecked ==
    /\ pc = "returned" /\ caller = "prefill"
    /\ pc' = "sample"
    /\ UNCHANGED <<adapter, request, layer, view, logits, state, prune, useless,
                   abortion, emitted, fed, context, broken>>

\* generate() looks for an abort after the prefill, before it takes the row...
PrefillReturns ==
    /\ pc = "returned" /\ caller = "prefill"
    /\ aborted' \in Poll
    /\ pc' = IF aborted' THEN "idle" ELSE "sample"
    /\ UNCHANGED <<adapter, request, layer, view, logits, state, prune, useless,
                   armed, emitted, fed, context, broken>>

\* ...but not after a decode pass.
DecodeReturns ==
    /\ pc = "returned" /\ caller = "decode"
    /\ pc' = "sample"
    /\ UNCHANGED <<adapter, request, layer, view, logits, state, prune, useless,
                   abortion, emitted, fed, context, broken>>

\* A token is drawn from the row.  An end-of-generation token ends a decode
\* (the first token is not looked at); the callback may end either.
Sample ==
    /\ pc = "sample"
    /\ \/ /\ caller = "decode"
          /\ pc' = "idle" /\ UNCHANGED emitted
       \/ /\ emitted' = emitted + 1
          /\ pc' \in {"idle", "next"}
    /\ UNCHANGED <<adapter, request, layer, view, logits, state, prune, useless,
                   abortion, fed, context, broken>>

\* The decode loop, which the bound MaxFed also ends.
NextToken ==
    /\ pc = "next"
    /\ IF emitted >= MaxTokens \/ fed = MaxFed
       THEN pc' = "idle" /\ UNCHANGED <<caller, toks, asked, prune, fed,
                                        aborted>>
       ELSE /\ aborted' \in Poll
            /\ IF aborted'
               THEN pc' = "idle" /\ UNCHANGED <<caller, toks, asked, prune,
                                                fed>>
               ELSE Enter("decode", 1, topK)
    /\ UNCHANGED <<adapter, layer, view, logits, state, useless, armed, topK,
                   emitted, context, broken>>

Next ==
    \/ ClearKVCache \/ ArmAbortPredicate
    \/ \E n \in 1 .. MaxPrompt, ask \in BOOLEAN : Forward(n, ask)
    \/ \E n \in 0 .. MaxPrompt, k \in BOOLEAN : Generate(n, k)
    \/ UploadEnds \/ UploadHybrid \/ ProfilePass \/ ProfileReturns \/ ProfileDone
    \/ NotEligible \/ GpuPassFull
    \/ \E copied \in BOOLEAN : GpuPassPrefix(copied)
    \/ \E late \in BOOLEAN : GpuPassFails(late)
    \/ RunLayer \/ LMHead
    \/ ClientResumes \/ PrefillReturns \/ DecodeReturns \/ Sample \/ NextToken

Spec == Init /\ [][Next]_vars

-----------------------------------------------------------------------------
Contents == [Layers -> Seq(0 .. ProfileToken)]

\* Every variable has its type; no position of a session passes
\* the tokens fed.
TypeOK ==
    /\ config \in Configs
    /\ pc \in {"idle", "profile", "dispatch", "layers", "returned", "sample",
               "next"}
    /\ caller \in {"client", "prefill", "decode", "profile"}
    /\ upload \in {"none", "uploaded", "unavailable"} /\ left \in 0 .. Prompts
    /\ outer.caller \in {"none", "upload", "client", "prefill", "decode"}
    /\ toks \in Seq(1 .. ProfileToken)
    /\ layer \in 1 .. NumLayers + 1
    /\ view \in Contents /\ host \in Contents /\ dev \in Contents
    /\ logits \in [row : {"none", "empty", "uninitialised", "computed"},
                   pruned : BOOLEAN]
    /\ outer = NoPass => pos \in 0 .. fed
    /\ kvPos \in 0 .. fed /\ fed \in 0 .. MaxFed
    /\ emitted \in 0 .. MaxFed
    /\ {asked, owned, forceCpu, prune, useless, armed, aborted, topK, broken}
         \subseteq BOOLEAN
    /\ context \in Seq(1 .. MaxFed)

HasRow ==
    pc = "returned" /\ caller # "profile" /\ logits.row = "computed"
SeesContext == \A l \in Layers : view[l] = context

\* The logits of a pass depend, in every layer and on whichever engine the
\* layer ran, on the tokens of the session in order, each once, and on none of
\* an earlier session: across clearKVCache(), the hand-over of qwen35 layers
\* between the engines, a GPU that fails on a fresh session, and aborted passes
\* that only attention layers have seen.
LogitsMatchContext == HasRow /\ ~broken => SeesContext

\* Between passes kvCache_.pos counts the tokens of the session, and a session
\* the GPU owns is at the same position on both sides.
PositionsAgree ==
    pc = "idle" /\ ~broken =>
        /\ pos = Len(context)
        /\ owned /\ pos > 0 => kvPos = pos

\* While the profiling pass holds the adapter's mutex, none of the forward()
\* calls it makes goes back to the adapter, which would wait for that mutex.
AdapterNotReentered == pc = "dispatch" /\ outer # NoPass => ~Eligible

\* The first token of a generation is drawn from logits a pass has computed,
\* even when an abort cut the prefill short.
FirstTokenFromLogits ==
    pc = "sample" /\ caller = "prefill" => logits.row = "computed"

\* Every token of a generation is drawn from logits a pass has computed.
TokensFromLogits == pc = "sample" => logits.row = "computed"

\* The LM head is pruned only for the pass whose caller asked for it.
PruneRequestConsumed == HasRow /\ logits.pruned => asked
=============================================================================
