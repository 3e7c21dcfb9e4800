----------------------------- MODULE McpServer -----------------------------
(***************************************************************************)
(* mcp_stdio.py: JSON-RPC over stdin and stdout, one line and one message  *)
(* at a time, with one client that may write ahead.  A line is what the    *)
(* loop and dispatch tell apart of it; the id of a request is its line's   *)
(* number, and null is 0.  stdin is read and decoded, strictly, a chunk of *)
(* lines at a time, ahead of the loop.  How long an audit may take, and    *)
(* that it ends, is LLMClient's subject.                                   *)
(***************************************************************************)
EXTENDS Naturals, Sequences

CONSTANT MaxLines    \* bound: lines that the client writes

ASSUME MaxLinesAssumption == MaxLines \in Nat

(* What tools/call may ask for, with `arguments` or without: an audit of a *)
(* document, of text that is no JSON, of a document or with arguments that *)
(* make analyze or args.get raise; the rules; a tool that does not exist.  *)
Tool == {"audit", "audit not JSON", "audit raising", "rules", "unknown tool"}

(* Params that are a truthy non-object, or a tool name that cannot be a    *)
(* key: these raise outside dispatch's try.                                *)
Method ==
    {"initialize", "initialize bad params", "initialized", "ping", "tools/list",
     "call bad params", "unknown method"} \cup Tool

Message == [method : Method, hasId : BOOLEAN]

(* A line that is no message: white space, text that is no JSON, JSON that *)
(* is no object, JSON that json.loads gives up on with another error than  *)
(* JSONDecodeError (nested too deeply, an integer too long), and bytes     *)
(* that are no text.                                                       *)
Stray == [text : {"blank", "garbage", "value", "too hard", "undecodable"}]

IsMessage(line) == "method" \in DOMAIN line
Undecodable(line) == line = [text |-> "undecodable"]

VARIABLES
    lines,        \* what the client has written
    closed,       \* it has closed stdin
    buffered,     \* lines that stdin has decoded
    pos,          \* lines that the loop has taken from it
    pc,           \* "read", "dispatch", "audit"; "ended", or after an exception
                  \* "dead", "undecoded"
    msg,          \* the local variable, assigned by json.loads
    answers       \* what is on stdout: [id, outcome]

vars == <<lines, closed, buffered, pos, pc, msg, answers>>

NoMessage == [text |-> "none"]

Init ==
    /\ lines = <<>> /\ closed = FALSE
    /\ buffered = 0 /\ pos = 0 /\ pc = "read"
    /\ msg = NoMessage
    /\ answers = <<>>

Write(line) ==
    /\ ~closed /\ Len(lines) < MaxLines
    /\ lines' = Append(lines, line)
    /\ UNCHANGED <<closed, buffered, pos, pc, msg, answers>>

Close ==
    /\ ~closed
    /\ closed' = TRUE
    /\ UNCHANGED <<lines, buffered, pos, pc, msg, answers>>

Respond(id, outcome) == answers' = Append(answers, [id |-> id, outcome |-> outcome])

(* for line in sys.stdin, when all that was decoded is used up: the next   *)
(* chunk.  Bytes in it that are no text raise, and the lines before them   *)
(* in the chunk are lost with it.                                          *)
FillBuffer ==
    /\ pc = "read" /\ pos = buffered
    /\ \E n \in (buffered + 1)..Len(lines) :
          IF \E k \in (buffered + 1)..n : Undecodable(lines[k])
          THEN pc' = "undecoded" /\ UNCHANGED buffered
          ELSE buffered' = n /\ UNCHANGED pc
    /\ UNCHANGED <<lines, closed, pos, msg, answers>>

(* for line in sys.stdin, otherwise: the next line. *)
Reads(text) ==
    /\ pc = "read" /\ pos < buffered
    /\ lines[pos + 1] = [text |-> text]
    /\ pos' = pos + 1
    /\ UNCHANGED <<lines, closed, buffered, msg>>

SkipBlank == Reads("blank") /\ UNCHANGED <<pc, answers>>

(* Seeded fault: the loop goes on to dispatch what it read before. *)
ParseErrorThenDispatch ==
    /\ Reads("garbage") /\ Respond(0, "parse error")
    /\ pc' = IF msg = NoMessage THEN "dead" ELSE "dispatch"

(* The JSON error is answered with id null, and the line is done with.     *)
ParseError == Reads("garbage") /\ Respond(0, "parse error") /\ UNCHANGED pc

(* msg.get of a value that is no object; and what json.loads raises that   *)
(* the loop does not catch.                                                *)
Crash ==
    /\ Reads("value") \/ Reads("too hard")
    /\ pc' = "dead"
    /\ UNCHANGED answers

Parse ==
    /\ pc = "read" /\ pos < buffered /\ IsMessage(lines[pos + 1])
    /\ msg' = lines[pos + 1]
    /\ pos' = pos + 1
    /\ pc' = "dispatch"
    /\ UNCHANGED <<lines, closed, buffered, answers>>

(* msg.get("id") *)
MsgId == IF msg.hasId THEN pos ELSE 0

Dispatch(method) ==
    /\ pc = "dispatch" /\ msg.method = method
    /\ UNCHANGED <<lines, closed, buffered, pos, msg>>

Answer(method, outcome) == Dispatch(method) /\ Respond(MsgId, outcome) /\ pc' = "read"

(* Seeded fault: a response of None is written, too. *)
IgnoredIsWritten == Dispatch("initialized") /\ Respond(MsgId, "null") /\ pc' = "read"

(* dispatch returns None: for this method, id or not. *)
Ignored == Dispatch("initialized") /\ UNCHANGED answers /\ pc' = "read"

UnknownNotification ==
    Dispatch("unknown method") /\ ~msg.hasId /\ UNCHANGED answers /\ pc' = "read"

(* Only unknown methods are told apart by their lack of an id: the others  *)
(* are answered with id null.                                              *)
Immediate ==
    \/ \E m \in {"initialize", "ping", "tools/list", "rules"} : Answer(m, "result")
    \/ Answer("unknown tool", "invalid params")
    \/ Answer("audit not JSON", "tool error")
    \/ Answer("unknown method", "method not found") /\ msg.hasId

(* Outside the try of dispatch and of the loop. *)
Raises ==
    /\ Dispatch("initialize bad params") \/ Dispatch("call bad params")
    /\ pc' = "dead"
    /\ UNCHANGED answers

StartAudit ==
    /\ Dispatch("audit") \/ Dispatch("audit raising")
    /\ pc' = "audit"
    /\ UNCHANGED answers

AuditDone ==
    /\ pc = "audit" /\ msg.method = "audit"
    /\ Respond(MsgId, "result")
    /\ pc' = "read"
    /\ UNCHANGED <<lines, closed, buffered, pos, msg>>

(* Seeded fault: only JSON errors are caught. *)
AuditEscapes ==
    /\ pc = "audit" /\ msg.method = "audit raising"
    /\ pc' = "dead"
    /\ UNCHANGED <<lines, closed, buffered, pos, msg, answers>>

(* except Exception: a tool's error is a result that says so. *)
AuditRaises ==
    /\ pc = "audit" /\ msg.method = "audit raising"
    /\ Respond(MsgId, "tool error")
    /\ pc' = "read"
    /\ UNCHANGED <<lines, closed, buffered, pos, msg>>

EndOfInput ==
    /\ pc = "read" /\ closed /\ pos = Len(lines)
    /\ pc' = "ended"
    /\ UNCHANGED <<lines, closed, buffered, pos, msg, answers>>

Serve ==
    \/ FillBuffer \/ SkipBlank \/ ParseError \/ Crash \/ Parse
    \/ Ignored \/ UnknownNotification \/ Immediate \/ Raises
    \/ StartAudit \/ AuditDone \/ AuditRaises \/ EndOfInput

Stop == pc \in {"dead", "undecoded", "ended"} /\ UNCHANGED vars

Next == (\E line \in Message \cup Stray : Write(line)) \/ Close \/ Serve \/ Stop

Spec == Init /\ [][Next]_vars

(* The process runs, and every audit ends (CallEnds of ServiceLife); the   *)
(* client may do as it likes.                                              *)
FairSpec == Spec /\ WF_vars(Serve)

-----------------------------------------------------------------------------
Outcome == {"result", "tool error", "parse error", "invalid params", "method not found"}

(* The types of the loop's state, and what is written to stdout. *)
TypeOK ==
    /\ lines \in Seq(Message \cup Stray) /\ closed \in BOOLEAN
    /\ buffered \in 0..Len(lines) /\ pos \in 0..buffered
    /\ pc \in {"read", "dispatch", "audit", "dead", "undecoded", "ended"}
    /\ msg \in Message \cup {NoMessage}
    /\ answers \in Seq([id : 0..MaxLines, outcome : Outcome])

(* A request, as JSON-RPC has it. *)
IsRequest(line) == IsMessage(line) /\ line.hasId /\ line.method # "initialized"

(* The requests among the lines that the loop has done with. *)
Done == IF pc \in {"dispatch", "audit", "dead"} THEN pos - 1 ELSE pos
RequestsDone == {k \in 1..Done : IsRequest(lines[k])}

(* A client that writes ahead can match answers with requests: they come   *)
(* once each and in the order of the requests, whatever stands between     *)
(* them, and none is answered before it was asked (mcp_stdio.py:165-180).  *)
AnswersMatch ==
    /\ {answers[k].id : k \in DOMAIN answers} \ {0} = RequestsDone
    /\ \A k, l \in DOMAIN answers :
          k < l /\ answers[k].id # 0 /\ answers[l].id # 0 => answers[k].id < answers[l].id

(* The lines that the server does not survive. *)
Fatal(line) ==
    IF IsMessage(line) THEN line.method \in {"initialize bad params", "call bad params"}
    ELSE line.text \in {"value", "too hard", "undecodable"}

Reachable(i) == i <= Len(lines) /\ \A k \in 1..i : ~Fatal(lines[k])
Waiting(i) == Reachable(i) /\ IsRequest(lines[i])
IsAnswered(i) == \E k \in DOMAIN answers : answers[k].id = i

(* "tool errors are reported in-band, not as protocol errors"              *)
(* (mcp_stdio.py:151): no error but those of fatal lines before it keeps a *)
(* request from its answer, closed input or not, once stdin has decoded    *)
(* it; and only bytes that are no text, which a client wrote after it      *)
(* without waiting for the answer, keep it from being decoded              *)
(* (mcp_stdio.py:165).                                                     *)
RequestsAnswered ==
    \A i \in 1..MaxLines :
        /\ (Waiting(i) /\ i <= buffered) ~> IsAnswered(i)
        /\ Waiting(i) ~> (IsAnswered(i) \/ \E k \in (i + 1)..Len(lines) : Undecodable(lines[k]))
=============================================================================
