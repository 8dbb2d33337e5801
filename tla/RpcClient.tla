----------------------------- MODULE RpcClient -----------------------------
(***************************************************************************)
(* JSON-RPC calls as the conductor makes them (rpc/client.rs) and the      *)
(* quantities in their answers (types.rs).  A response is what came back   *)
(* for one request: whether an HTTP answer with a JSON body arrived, its   *)
(* envelope, and the JSON values in `error' and `result'.                  *)
(***************************************************************************)
EXTENDS Integers

CONSTANT MaxU64     \* u64::MAX

ASSUME U64Assumption == MaxU64 \in Nat

\* A JSON value: its kind (strings by what they hold) and its number.
Json(kind, n) == [kind |-> kind, n |-> n]
Number(n) == Json("number", n)
Hex(n) == Json("hex", n)
Bool(b) == Json("bool", IF b THEN 1 ELSE 0)
Array(len) == Json("array", len)
Absent == Json("absent", 0)

Response(http, envelope, error, result) ==
    [http |-> http, envelope |-> envelope, error |-> error, result |-> result]

Answer(value) == Response("ok", "ours", "none", value)
Refusal(code) == Response("ok", "ours", code, Absent)
\* No answer before RPC_CALL_TIMEOUT, an HTTP error status, or no JSON.
NoAnswer == Response("fails", "ours", "none", Absent)
\* Another request's answer, or one that is not JSON-RPC 2.0.
Stray(value) == Response("ok", "other", "none", value)

Ok(value) == [ok |-> TRUE, value |-> value, error |-> "none"]
Err(class) == [ok |-> FALSE, value |-> Absent, error |-> class]

\* The envelope is judged before `error', `error' before `result', which
\* either decodes as the type asked for or not.
call(r, decodes) ==
    IF r.http # "ok" THEN Err("Http")
    ELSE IF r.envelope # "ours" THEN Err("InvalidResponse")
    ELSE IF r.error # "none" THEN Err(r.error)
    ELSE IF r.result = Absent THEN Err("MissingResult")
    ELSE IF ~decodes THEN Err("InvalidResponse")
    ELSE Ok(r.result)

is_method_not_found(e) == e = "MethodNotFound"

\* What does not fit a u64 is an error, never a wrapped number.
IsQuantity(v) == v.kind \in {"number", "hex", "padded", "decimal"} /\ v.n \in 0 .. MaxU64

IsBool(v) == v.kind = "bool"
IsArray(v) == v.kind = "array" /\ v.n \in Nat

conductor_enabled(r) == call(r, IsBool(r.result))
=============================================================================
