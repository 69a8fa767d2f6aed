----------------------------- MODULE HttpParser -----------------------------
(***************************************************************************)
(* http/HttpParser.cpp and the parsing part of http/HttpMessage.cpp: the   *)
(* state of a message that is parsed as its bytes arrive.  http_parser is  *)
(* external; it reads the bytes and calls back when a message begins, when *)
(* its header ends, for each piece of body and when it is complete.        *)
(***************************************************************************)
EXTENDS Naturals

\* PARSE_STATE; the numbers of the enumeration are in this order.
ParseState == {"UNINIT", "INIT", "HEADER_NEED_MORE_DATA", "HEADER_COMPLETE",
               "BODY_NEED_MORE_DATA", "COMPLETE"}
Parser == [state : ParseState,
           hcb : BOOLEAN,         \* headerCompletedHandle_ is set
           nobody : BOOLEAN,      \* nobody_
           tunnel : BOOLEAN]      \* tunnelbody_
\* HttpParser::reset, which HttpMessage::clear calls.
reset == [state |-> "UNINIT", hcb |-> FALSE, nobody |-> FALSE, tunnel |-> FALSE]

needMoreData(p) == p.state # "COMPLETE"
headerCompleted(p) == p.state \in {"HEADER_COMPLETE", "BODY_NEED_MORE_DATA", "COMPLETE"}
initParser(p) == IF p.state = "UNINIT" THEN [p EXCEPT !.state = "INIT"] ELSE p

on_message_begin(p) == [p EXCEPT !.state = "HEADER_NEED_MORE_DATA"]
\* Whether or not there is a content-length, a body that is expected is labelled to be
\* tunnelled, but for a short response with one (short).
on_headers_complete(p, short) ==
    [p EXCEPT !.state = "HEADER_COMPLETE", !.tunnel = @ \/ (~p.nobody /\ ~short)]
on_body(p) == [p EXCEPT !.state = "BODY_NEED_MORE_DATA"]
on_message_complete(p) == [p EXCEPT !.state = "COMPLETE"]

callback(p, e, short) ==
    CASE e = "begin" -> on_message_begin(p)
      [] e = "headers" -> on_headers_complete(p, short)
      [] e = "body" -> on_body(p)
      [] e = "complete" -> on_message_complete(p)

\* External: the callbacks http_parser_execute may make next, on the bytes it has left.  It goes
\* on with the message after a complete one, except after a CONNECT request (connect), where
\* it returns.
http_parser_execute(p, connect) ==
    CASE p.state = "HEADER_NEED_MORE_DATA" -> {"headers"}
      [] p.state \in {"HEADER_COMPLETE", "BODY_NEED_MORE_DATA"} ->
           IF p.nobody THEN {"complete"} ELSE {"body", "complete"}
      [] p.state = "COMPLETE" /\ connect -> {}
      [] OTHER -> {"begin"}

\* What HttpMessage::parse may return when the callbacks have left the parser at p.  Not all
\* bytes parsed: an error, unless it is a request that is complete (PIPELINE, which the
\* callers treat as COMPLETE).
parseReturns(p, role) ==
    IF needMoreData(p) THEN {"NEED_MOREDATA", "ERROR"}
    ELSE {"COMPLETE"} \cup (IF role = "response" THEN {"ERROR"} ELSE {})
=============================================================================
