------------------------------ MODULE Routing ------------------------------
(***************************************************************************)
(* Names and messages of a call, as pure operators.                        *)
(*                                                                         *)
(*  - src/rpcxx/handler.cpp: sanitizeSlashes and tryRoute.  A name is a    *)
(*    sequence of "/" and of words; a run of other characters is one word. *)
(*  - include/rpcxx/protocol.hpp: which fields Formatter puts into a       *)
(*    message and what the Unpack functions read back.  A message is a     *)
(*    function from field names to values.                                 *)
(***************************************************************************)
EXTENDS Naturals, Sequences, SequencesExt

Slash == "/"

\* What names are made of: words and slashes.
Parts == STRING \cup {Slash}

-----------------------------------------------------------------------------
\* sanitizeSlashes: o collects the output; a slash is only written when a word
\* follows it, and one that leads is cut off.
SanitizeStep(o, ch) ==
    IF ch = Slash THEN [o EXCEPT !.lastSlash = TRUE]
    ELSE [storage |-> o.storage \o (IF o.lastSlash THEN <<Slash, ch>> ELSE <<ch>>),
          lastSlash |-> FALSE]

SanitizeSlashes(method) ==
    LET res == FoldLeft(SanitizeStep, [storage |-> << >>, lastSlash |-> FALSE], method).storage
    IN  IF res # << >> /\ res[1] = Slash THEN Tail(res) ELSE res

\* addPref: what Client puts before a name.
AddPref(base, prefix) == IF prefix = << >> THEN base ELSE prefix \o <<Slash>> \o base

\* Seeded fault: the name is cut at its last slash.
TryRouteLast(routes, method) ==
    LET raw == SanitizeSlashes(method)
        routed == Len(raw) > 1 /\ raw[1] \in DOMAIN routes
    IN  [routed |-> routed, method |-> IF routed THEN <<Last(raw)>> ELSE raw]

\* tryRoute: routes maps the words that are routed to live handlers.  The name
\* is sanitized whether or not a route is found.
TryRoute(routes, method) ==
    LET raw == SanitizeSlashes(method)
        routed == Len(raw) > 1 /\ raw[1] \in DOMAIN routes
    IN  [routed |-> routed, method |-> IF routed THEN SubSeq(raw, 3, Len(raw)) ELSE raw]

\* What the comment of sanitizeSlashes promises: the words, with single slashes
\* between them.
AddWord(words, ch) == IF ch = Slash THEN words ELSE Append(words, ch)
Words(name) == FoldLeft(AddWord, << >>, name)

\* A run of characters other than "/" is one word, so no two words are neighbours.
IsName(name) == \A i \in 1 .. Len(name) - 1 : name[i] = Slash \/ name[i + 1] = Slash

-----------------------------------------------------------------------------
Protocols == {"compliant", "minified"}

\* Fields<proto>: the names that differ.
Fields(proto) ==
    IF proto = "compliant"
    THEN [Method |-> "method", Params |-> "params", Result |-> "result", Error |-> "error"]
    ELSE [Method |-> "m", Params |-> "p", Result |-> "r", Error |-> "e"]

\* A function from the keys of pairs to their values; Tag is the "jsonrpc" field.
Object(pairs) == [k \in {p[1] : p \in pairs} |-> (CHOOSE p \in pairs : p[1] = k)[2]]
Tag(proto) == IF proto = "compliant" THEN {<<"jsonrpc", "2.0">>} ELSE {}

\* Formatter.
MakeRequest(proto, id, method, params) ==
    Object({<<"id", id>>, <<Fields(proto).Method, method>>, <<Fields(proto).Params, params>>}
           \cup Tag(proto))
MakeNotify(proto, method, params) ==
    Object({<<Fields(proto).Method, method>>, <<Fields(proto).Params, params>>} \cup Tag(proto))
MakeResponce(proto, id, resp) ==
    Object({<<"id", id>>, <<Fields(proto).Result, resp>>} \cup Tag(proto))
MakeError(proto, id, code) ==
    Object({<<"id", id>>, <<Fields(proto).Error, code>>} \cup Tag(proto))

\* IAsyncTransport's handle and handleServer: a message without a method is no
\* request, one without an id is a notification, and without parameters it has an
\* empty array of them.
IsRequest(proto, msg) == Fields(proto).Method \in DOMAIN msg
ReadRequest(proto, msg) ==
    LET F == Fields(proto) IN
    [method |-> msg[F.Method], notify |-> "id" \notin DOMAIN msg,
     params |-> IF F.Params \in DOMAIN msg THEN msg[F.Params] ELSE "array"]

\* UnpackSingleResponce: the result, the error, or a parse error.
UnpackSingleResponce(proto, msg) ==
    LET F == Fields(proto) IN
    CASE F.Result \in DOMAIN msg -> msg[F.Result]
      [] F.Result \notin DOMAIN msg /\ F.Error \in DOMAIN msg -> msg[F.Error]
      [] OTHER -> "parse"
=============================================================================
