------------------------------ MODULE Bindings ------------------------------
(***************************************************************************)
(* One request through each client of the engine: raw C (core/src/ffi.rs)  *)
(* and Go and PHP over it, raw JavaScript (core/src/wasm.rs) and           *)
(* TypeScript over it, Python (py/src/lib.rs) and the Rust SDK (rs/src).   *)
(* A client builds a pipeline from settings, evaluates one context and     *)
(* reads the answer.  No pipeline has signals: only the Rust SDK could     *)
(* give it some.                                                           *)
(*                                                                         *)
(* Times are in half milliseconds, of which Go and Rust can express one.   *)
(* A collection of a context is "full", "empty", "null", "absent", or      *)
(* "wrong", of or with another type; headers and a config may also be      *)
(* "numbered", a map whose keys are "0", "1" and so on, and a config       *)
(* "deep", nested beyond what serde_json reads, or "unwritable", with a    *)
(* value of a type without JSON.                                           *)
(***************************************************************************)
EXTENDS Signals

CONSTANTS
    NativePermits,      \* tokio's MAX_PERMITS on a host of 64 bits (2^61 - 1)
    WasmPermits,        \* and on wasm32 (2^29 - 1)
    WasmUsize           \* usize::MAX of wasm32 (2^32 - 1)

ASSUME PermitsAssumption ==
    /\ {NativePermits, WasmPermits, WasmUsize} \subseteq Nat
    /\ 8 <= WasmPermits /\ WasmPermits < WasmUsize /\ WasmUsize < NativePermits

Clients == {"c", "go", "php", "js", "ts", "python", "rust"}

Absent == -2        \* a setting that is left out
Wrong == -1         \* one that is no unsigned integer of 64 bits

-----------------------------------------------------------------------------
(* Building a pipeline *)

Refused == [permits |-> 0, timeout |-> 0]     \* no pipeline
Crashed == [permits |-> -1, timeout |-> 0]    \* its constructor panicked

\* Pipeline::new; at least one evaluation at a time, and Semaphore::new panics for too many.
NewPipeline(concurrency, timeout, limit) ==
    IF concurrency > limit THEN Crashed
    ELSE [permits |-> Maximum(concurrency, 1), timeout |-> timeout]

Setting(value, default) == IF value = Absent THEN default ELSE value

\* What serde, or the signature of a constructor, makes of two settings.
FromSettings(s, concurrency, timeout, limit) ==
    IF Wrong \in {s.concurrency, s.timeout} THEN Refused
    ELSE NewPipeline(Setting(s.concurrency, concurrency), Setting(s.timeout, timeout), limit)

FfiConfig(s) == FromSettings(s, 8, 10000, NativePermits)

\* c12n_pipeline_new: no text, or no JSON object, is no pipeline.
FfiNew(s) == IF s.whole = "object" THEN FfiConfig(s) ELSE Refused

\* serde refuses what usize has no room for.
WasmConfig(s) ==
    IF s.concurrency > WasmUsize THEN Refused ELSE FromSettings(s, 8, 10000, WasmPermits)

\* The wasm constructor, for which undefined and null are all defaults.
WasmNew(s) ==
    CASE s.whole = "null" -> WasmConfig([concurrency |-> Absent, timeout |-> Absent])
      [] s.whole = "object" -> WasmConfig(s)
      [] s.whole = "garbage" -> Refused

\* Go sends both fields, a zero for one that is left out, and whole milliseconds.
GoNew(s) ==
    FfiNew([s EXCEPT !.concurrency = Setting(@, 0),
                     !.timeout = IF @ > 0 THEN 2 * (@ \div 2) ELSE Setting(@, 0)])

PhpNew(s) ==
    FfiNew([s EXCEPT !.concurrency = Setting(@, 8), !.timeout = Setting(@, 10000)])

TsNew(s) ==
    WasmNew(IF s.whole = "null"
            THEN [whole |-> "object", concurrency |-> Absent, timeout |-> Absent] ELSE s)

PyNew(s) == FromSettings(s, 8, 10000, NativePermits)

\* PipelineConfig::default and its builder.
SdkNew(s) == NewPipeline(Setting(s.concurrency, 8), Setting(s.timeout, 10000), NativePermits)

Engine(client, s) ==
    CASE client = "c" -> FfiNew(s)
      [] client = "go" -> GoNew(s)
      [] client = "php" -> PhpNew(s)
      [] client = "js" -> WasmNew(s)
      [] client = "ts" -> TsNew(s)
      [] client = "python" -> PyNew(s)
      [] client = "rust" -> SdkNew(s)

-----------------------------------------------------------------------------
(* Evaluating a context and reading the answer *)

Collections == {"history", "headers", "config"}

\* ClassificationContext from a structure of values: null is an empty collection.
Readable(ctx, unreadable) ==
    ctx.text = "given" /\ \A c \in Collections : ctx[c] \notin unreadable

\* Its text in JSON, which serde_json reads to a depth of 128.
ReadableJson(ctx) == Readable(ctx, {"wrong", "deep"})

\* What an evaluation of a pipeline without signals answers.
NoSignals == Result(0, <<"NoSignals">>)

\* An answer to a context that cannot be read carries an error only.
ErrorEnvelope == Failure("Envelope")

FfiEvaluate(ctx) == IF ReadableJson(ctx) THEN NoSignals ELSE ErrorEnvelope

WasmEvaluate(ctx) ==
    IF Readable(ctx, {"wrong", "unwritable"}) THEN NoSignals ELSE Failure("Evaluate")

\* normalizeContext; what cannot be marshalled is an error of its own.
GoEvaluate(ctx) ==
    IF ctx.config = "unwritable" THEN Failure("Evaluate")
    ELSE FfiEvaluate([c \in DOMAIN ctx |-> IF ctx[c] \in {"null", "absent"} THEN "empty" ELSE ctx[c]])

\* ParseResult looks for results and errors, and an envelope has neither.
GoResult(raw) == IF raw = ErrorEnvelope THEN Result(0, <<>>) ELSE raw

\* Mutant: an empty PHP array goes out as the list it is.
ToFfiJsonOfArrays(ctx) ==
    [c \in DOMAIN ctx |-> CASE ctx[c] \in {"empty", "absent"} -> IF c = "history" THEN "empty" ELSE "wrong"
                            [] ctx[c] = "numbered" -> "wrong"
                            [] OTHER -> ctx[c]]

\* An empty PHP array, the default of each collection, goes out as an object where one is
\* due; one whose keys are the numbers from zero is a list to PHP, and goes out as one.
ToFfiJson(ctx) ==
    [c \in DOMAIN ctx |-> CASE ctx[c] \in {"empty", "absent"} -> "empty"
                            [] ctx[c] = "numbered" -> "wrong"
                            [] OTHER -> ctx[c]]

PhpEvaluate(ctx) ==
    IF ctx.config = "unwritable" THEN Failure("Evaluate") ELSE FfiEvaluate(ToFfiJson(ctx))

\* Mutant: the envelope is not looked for.
PhpResultOfArrays(raw) == IF raw = ErrorEnvelope THEN Result(0, <<>>) ELSE raw

PhpResult(raw) == IF raw = ErrorEnvelope THEN Failure("Evaluate") ELSE raw

\* parseResult requires both arrays; toWireContext renames and fills in nothing.
TsResult(raw) == raw

\* The config arrives as a JSON text, of which null is no map, or as None, which is absent;
\* the rest of the context arrives as Python values.
PyEvaluate(ctx) ==
    IF ReadableJson(ctx) /\ ctx.config # "null" THEN NoSignals ELSE Failure("Evaluate")

SdkEvaluate(ctx) == NoSignals

Evaluation(client, ctx) ==
    CASE client = "c" -> FfiEvaluate(ctx)
      [] client = "go" -> GoResult(GoEvaluate(ctx))
      [] client = "php" -> PhpResult(PhpEvaluate(ctx))
      [] client = "js" -> WasmEvaluate(ctx)
      [] client = "ts" -> TsResult(WasmEvaluate(ctx))
      [] client = "python" -> PyEvaluate(ctx)
      [] client = "rust" -> SdkEvaluate(ctx)

Outcome(client, s, ctx) ==
    CASE Engine(client, s) = Refused -> Failure("Refused")
      [] Engine(client, s) = Crashed -> Failure("Crashed")
      [] OTHER -> Evaluation(client, ctx)

Untyped == {"c", "js", "ts"}        \* a caller can pass anything

\* What a caller of a client can ask for.
CanAsk(client, s, ctx) ==
    /\ s.whole # "object" \/ ctx.text # "given" => client \in Untyped
    /\ Wrong \in {s.concurrency, s.timeout} => client # "rust"
    /\ s.timeout > 0 /\ s.timeout % 2 = 1 => client \in {"go", "rust"}
    /\ \A c \in Collections :
          /\ ctx[c] = "null" => client \in Untyped \cup {"go", "python"}
          /\ ctx[c] = "wrong" =>
                client \in Untyped \cup {"python"} \cup (IF c = "config" THEN {} ELSE {"php"})
          /\ ctx[c] = "unwritable" => client \in {"js", "ts", "go", "php"}

\* The context as its caller wrote it.
Contexts ==
    [text : {"given", "missing"}, history : {"full", "empty", "null", "absent", "wrong"},
     headers : {"full", "empty", "null", "absent", "wrong", "numbered"},
     config : {"full", "empty", "null", "absent", "wrong", "numbered", "deep", "unwritable"}]

SomeSettings ==
    [whole : {"object", "null", "garbage"}, concurrency : Nat \cup {Absent, Wrong},
     timeout : Nat \cup {Absent, Wrong}]

ASSUME RequestsAssumption ==
    \A family \in DOMAIN Inputs : \A i \in Inputs[family] :
        i.signal = "request" =>
            /\ i.client \in Clients /\ i.settings \in SomeSettings /\ i.context \in Contexts
            /\ CanAsk(i.client, i.settings, i.context)

Request ==
    /\ Asked("request")
    /\ Answer(Outcome(input.client, input.settings, input.context))

BindingsNext == Next \/ Request

BindingsSpec == Init /\ [][BindingsNext]_vars

-----------------------------------------------------------------------------
(* Properties *)

\* What a client passes on as it was meant.  Go sends a zero for a setting that is left out
\* and cuts part of a millisecond off; permits and usize are fewer on wasm32; Python's
\* config must be a map; a PHP map with the keys of a list is one.
Conveys(client, s, ctx) ==
    /\ client = "go" => Absent \notin {s.concurrency, s.timeout} /\ ~(s.timeout > 0 /\ s.timeout % 2 = 1)
    /\ client \in {"js", "ts"} => s.concurrency <= WasmPermits
    /\ client = "python" => ctx.config # "null"
    /\ client = "php" => "numbered" \notin {ctx.headers, ctx.config}

\* The same request, where two clients can make it, builds the same engine and is
\* answered or refused by both: the defaults and conversions that ffi.rs, wasm.rs,
\* lib.rs, builder.rs and the Go, PHP and TypeScript sources each repeat agree.  They
\* differ in what Conveys names, in settings that are null, which C refuses and
\* JavaScript takes for the defaults, and in a deep config, which only JSON cannot carry.
BindingsAgree ==
    input.signal = "request" /\ answer.error # "pending" =>
        \A other \in Clients :
            LET s == input.settings
                ctx == input.context
                same == \A client \in {input.client, other} : Conveys(client, s, ctx)
            IN  CanAsk(other, s, ctx) /\ same /\ s.whole # "null" /\ ctx.config # "deep" =>
                    /\ Engine(other, s) = Engine(input.client, s)
                    /\ (Outcome(other, s, ctx).error = "none") = (answer.error = "none")

\* No client gets an answer that has neither results nor errors and is no failure
\* either: a pipeline without signals, a context that cannot be read and settings that
\* are refused all show.  Only Go's ParseResult hides one, the envelope for a config the
\* engine cannot read.
NeverSilent ==
    input.signal = "request" /\ answer.error = "none" /\ answer.labels = <<>> =>
        input.client = "go" /\ input.context.config = "deep"
=============================================================================
