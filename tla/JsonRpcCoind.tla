--------------------------- MODULE JsonRpcCoind ---------------------------
(***************************************************************************)
(* The JSON-RPC client of the coin daemon, JSONRPC_Coind in               *)
(* src/libcoind/jsonrpc/jsonrpc_coind.cpp: _request, request,             *)
(* request_with_error, check and check_block_header.                      *)
(*                                                                         *)
(* The daemon's HTTP reply is the input: a body that is not JSON at all   *)
(* (the empty body of a 401, an HTML error page), or a JSON object whose  *)
(* "error" and "result" members have one of a few UniValue types.  The    *)
(* UniValue semantics the code relies on (univalue.h is not in the        *)
(* repository) are those of Bitcoin's univalue: read() of a body that is  *)
(* not JSON leaves a null value; v[key] of a non-object, or of a missing  *)
(* key, is null; get_str and get_obj throw std::runtime_error unless the  *)
(* value has that type.                                                   *)
(*                                                                         *)
(* parent_net->jsonrpc_check() and version_check(), and the wrappers       *)
(* getnetworkinfo, getblockchaininfo and getblockheader, are declared in  *)
(* headers that are not in the repository.  The checks are choices over   *)
(* their results.  getnetworkinfo goes through request, because check     *)
(* indexes its value by "version", a member of the result object.  For    *)
(* getblockchaininfo and getblockheader, whose values check and           *)
(* check_block_header index by "error", the wrapper is a choice between   *)
(* request and request_with_error.                                        *)
(***************************************************************************)
EXTENDS Naturals

CONSTANTS
    Methods,  \* RPC method names passed to request (strings)
    Replies   \* the replies the daemon may send: [json |-> FALSE] or
              \* [json |-> TRUE, error |-> T, result |-> T], T a UniValue type

\* The reply of the daemon, as a UniValue: [type, error, result], where
\* error and result are result["error"] and result["result"] (null when the
\* value is not an object).
Parsed(reply) ==
    IF reply.json THEN [type |-> "obj", error |-> reply.error, result |-> reply.result]
    ELSE [type |-> "null", error |-> "null", result |-> "null"]

\* The answer of request: it throws, or returns result["result"].get_obj().
\* logged: whether the "Error in request" line was written.
Threw(logged) == [returned |-> FALSE, logged |-> logged]
Returned(v, logged) == [returned |-> TRUE, val |-> v, logged |-> logged]

(***************************************************************************)
(* _request (lines 7-38): format the body, one HTTP write and one read,   *)
(* parse the body.  The bytes are left out; what reaches the caller is    *)
(* the parsed reply.                                                       *)
(***************************************************************************)
_request(reply) == Parsed(reply)

(***************************************************************************)
(* request (lines 40-48).  A non-null error is logged with get_str(),     *)
(* which throws before the log record is written unless the error is a    *)
(* string; then result["result"].get_obj() throws unless it is an object. *)
(***************************************************************************)
request(reply) ==
    LET r == _request(reply)
        logged == r.error = "str"
    IN  IF r.error # "null" /\ ~logged THEN Threw(FALSE)
        ELSE IF r.result # "obj" THEN Threw(logged)
        ELSE Returned(r.result, logged)

\* request_with_error (lines 50-53): the whole reply, never a throw.
request_with_error(reply) == Returned(_request(reply), FALSE)

\* A wrapper that indexes its value by "error": through request_with_error
\* the value is the reply, through request it is the result object, whose
\* "error" member is null.
error_of(via, reply) ==
    IF via = "request_with_error" THEN Returned(_request(reply).error, FALSE)
    ELSE LET r == request(reply) IN
         IF r.returned THEN Returned("null", r.logged) ELSE r

Vias == {"request", "request_with_error"}

VARIABLES
    last,    \* the latest call: its operation, the reply(s) and the outcome
    logged   \* the methods whose daemon error has been logged

vars == <<last, logged>>

Init ==
    /\ last = [op |-> "none"]
    /\ logged = {}

\* request(method_name, params) on one reply of the daemon.
Request(m, reply) ==
    LET r == request(reply) IN
    /\ last' = [op |-> "request", reply |-> reply, out |-> r]
    /\ logged' = IF r.logged THEN logged \cup {m} ELSE logged

\* request_with_error(method_name, params).
RequestWithError(reply) ==
    /\ last' = [op |-> "request_with_error", reply |-> reply,
                out |-> request_with_error(reply)]
    /\ UNCHANGED logged

check(rpc_ok, info, version_ok, chain, via) ==
    LET n == request(info)
        c == error_of(via, chain)
        out == CASE ~rpc_ok        -> Returned(FALSE, FALSE)
                 [] ~n.returned    -> n
                 [] ~version_ok    -> Returned(FALSE, n.logged)
                 [] ~c.returned    -> Threw(n.logged \/ c.logged)
                 [] OTHER          -> Returned(TRUE, n.logged \/ c.logged)
        noted == {m \in {"getnetworkinfo", "getblockchaininfo"} :
                      IF m = "getnetworkinfo" THEN rpc_ok /\ n.logged
                      ELSE rpc_ok /\ n.returned /\ version_ok /\ c.logged}
    IN  /\ last' = [op |-> "check", info |-> info, reply |-> chain, via |-> via, out |-> out]
        /\ logged' = logged \cup noted

\* check_block_header (lines 102-114): true exactly when the "error" member
\* of getblockheader's value is null.
check_block_header(reply, via) ==
    LET e == error_of(via, reply)
        out == IF e.returned THEN Returned(e.val = "null", e.logged) ELSE e
    IN  /\ last' = [op |-> "check_block_header", reply |-> reply, via |-> via, out |-> out]
        /\ UNCHANGED logged

Next ==
    \/ \E m \in Methods, r \in Replies : Request(m, r)
    \/ \E r \in Replies : RequestWithError(r)
    \/ \E a, v \in BOOLEAN, i, c \in Replies, via \in Vias : check(a, i, v, c, via)
    \/ \E r \in Replies, via \in Vias : check_block_header(r, via)

Spec == Init /\ [][Next]_vars

-----------------------------------------------------------------------------
(* Properties *)

HeaderCheckAnswers ==
    last.op = "check_block_header" =>
        /\ last.out.returned
        /\ last.out.val <=> (last.reply.json /\ last.reply.error = "null"
                             /\ last.reply.result = "obj")
====
