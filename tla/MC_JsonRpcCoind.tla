-------------------------- MODULE MC_JsonRpcCoind --------------------------
EXTENDS JsonRpcCoind

\* Two methods a caller may request.
MCMethods == {"getblocktemplate", "getmininginfo"}

\* A body that is not JSON, and the JSON replies a JSON-RPC 1.0 daemon
\* sends (a result and a null error, or a null result and an error object),
\* with the variants a lenient server may send: an error string, a result
\* that is a number or missing.
MCReplies ==
    {[json |-> FALSE]} \cup
    {[json |-> TRUE, error |-> e, result |-> r] :
        e \in {"null", "str", "obj"}, r \in {"null", "num", "obj"}}
====
