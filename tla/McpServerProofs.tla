-------------------------- MODULE McpServerProofs --------------------------
(***************************************************************************)
(* The answers of the MCP server, for any number of lines.                 *)
(***************************************************************************)
EXTENDS McpServer, Integers, TLAPS

Line == Message \cup Stray

(* The local variable is the line that was read last, as long as that line *)
(* is worked on; and no answer is ahead of the lines.                      *)
LoopInv ==
    /\ Len(lines) <= MaxLines
    /\ pc \in {"dispatch", "audit"} => pos > 0 /\ msg = lines[pos] /\ IsMessage(msg)
    /\ pc = "audit" => msg.method \in {"audit", "audit raising"}
    /\ \A k \in DOMAIN answers : answers[k].id <= pos

IInv == TypeOK /\ LoopInv /\ AnswersMatch

-----------------------------------------------------------------------------
(* A line is a message or not, and one that is not has a text only.        *)
LEMMA LineKinds ==
    /\ \A line \in Message : IsMessage(line)
    /\ \A line \in Stray : ~IsMessage(line)
    /\ \A line \in Line : IsMessage(line) => line \in Message
<1>1. \A line \in Message : IsMessage(line)
  BY DEF Message, IsMessage
<1>2. ASSUME NEW line \in Stray PROVE ~IsMessage(line)
  <2>1. DOMAIN line = {"text"}
    BY DEF Stray
  <2> QED BY <2>1 DEF IsMessage
<1> QED BY <1>1, <1>2 DEF Line

(* One more answer, to the line just read or to no request in particular,  *)
(* keeps the answers in order.                                             *)
LEMMA OneMoreAnswer ==
    ASSUME NEW id \in 0..MaxLines, NEW outcome \in Outcome,
           TypeOK, \A k \in DOMAIN answers : answers[k].id <= pos,
           Respond(id, outcome),
           id # 0 => \A k \in DOMAIN answers : answers[k].id < id,
           \A k, l \in DOMAIN answers :
              k < l /\ answers[k].id # 0 /\ answers[l].id # 0 => answers[k].id < answers[l].id
    PROVE  /\ answers' \in Seq([id : 0..MaxLines, outcome : Outcome])
           /\ {answers'[k].id : k \in DOMAIN answers'} = {answers[k].id : k \in DOMAIN answers} \cup {id}
           /\ \A k, l \in DOMAIN answers' :
                 k < l /\ answers'[k].id # 0 /\ answers'[l].id # 0 => answers'[k].id < answers'[l].id
<1> DEFINE Entry == [id |-> id, outcome |-> outcome]
<1>1. answers \in Seq([id : 0..MaxLines, outcome : Outcome]) /\ Entry \in [id : 0..MaxLines, outcome : Outcome]
  BY DEF TypeOK
<1>2. answers' = Append(answers, Entry)
  BY DEF Respond
<1> HIDE DEF Entry
<1>3. /\ answers' \in Seq([id : 0..MaxLines, outcome : Outcome])
      /\ Len(answers') = Len(answers) + 1
      /\ \A k \in 1..Len(answers) : answers'[k] = answers[k]
      /\ answers'[Len(answers) + 1] = Entry
  BY <1>1, <1>2
<1>4. Entry.id = id
  BY DEF Entry
<1>5. DOMAIN answers = 1..Len(answers) /\ DOMAIN answers' = 1..(Len(answers) + 1) /\ Len(answers) \in Nat
  BY <1>1, <1>3
<1>6. {answers'[k].id : k \in DOMAIN answers'} = {answers[k].id : k \in DOMAIN answers} \cup {id}
  BY <1>3, <1>4, <1>5
<1>7. ASSUME NEW k \in DOMAIN answers', NEW l \in DOMAIN answers', k < l,
             answers'[k].id # 0, answers'[l].id # 0
      PROVE  answers'[k].id < answers'[l].id
  BY <1>3, <1>4, <1>5, <1>7
<1> QED BY <1>3, <1>6, <1>7

(* What the loop has done with, when the line it is at is or is not a      *)
(* request.                                                                *)
LEMMA OneMoreDone ==
    ASSUME NEW n \in Nat, n > 0
    PROVE  /\ IsRequest(lines[n]) =>
                 {k \in 1..n : IsRequest(lines[k])} = {k \in 1..(n - 1) : IsRequest(lines[k])} \cup {n}
           /\ ~IsRequest(lines[n]) =>
                 {k \in 1..n : IsRequest(lines[k])} = {k \in 1..(n - 1) : IsRequest(lines[k])}
OBVIOUS

LEMMA InvInit == Init => IInv
<1> SUFFICES ASSUME Init PROVE IInv
  OBVIOUS
<1>1. TypeOK
  <2>1. lines \in Seq(Message \cup Stray) /\ answers \in Seq([id : 0..MaxLines, outcome : Outcome])
    BY DEF Init
  <2>2. closed \in BOOLEAN /\ msg \in Message \cup {NoMessage}
    BY DEF Init
  <2>3. buffered \in 0..Len(lines) /\ pos \in 0..buffered /\ pc \in {"read", "dispatch", "audit", "dead", "undecoded", "ended"}
    BY DEF Init
  <2> QED BY <2>1, <2>2, <2>3 DEF TypeOK
<1>2. LoopInv
  BY MaxLinesAssumption DEF Init, LoopInv
<1>3. AnswersMatch
  BY DEF Init, AnswersMatch, RequestsDone, Done
<1> QED BY <1>1, <1>2, <1>3 DEF IInv

(* What the invariant says, in parts. *)
LEMMA InvParts ==
    ASSUME IInv
    PROVE  /\ lines \in Seq(Line) /\ Len(lines) \in 0..MaxLines /\ MaxLines \in Nat
           /\ pos \in Nat /\ pos <= buffered
           /\ buffered \in Nat /\ buffered <= Len(lines)
           /\ answers \in Seq([id : 0..MaxLines, outcome : Outcome])
           /\ \A k \in DOMAIN answers : answers[k].id \in Nat /\ answers[k].id <= pos
           /\ \A k \in 1..Len(lines) : lines[k] \in Line
<1>1. /\ lines \in Seq(Line) /\ Len(lines) \in Nat
      /\ pos \in Nat /\ pos <= buffered /\ buffered \in Nat /\ buffered <= Len(lines)
  BY DEF IInv, TypeOK, Line
<1>2. answers \in Seq([id : 0..MaxLines, outcome : Outcome])
  BY DEF IInv, TypeOK
<1>3. ASSUME NEW k \in DOMAIN answers PROVE answers[k].id \in Nat /\ answers[k].id <= pos
  <2> DEFINE Entry == [id : 0..MaxLines, outcome : Outcome]
  <2> HIDE DEF Entry
  <2>0. answers \in Seq(Entry)
    BY <1>2 DEF Entry
  <2>1. answers[k] \in Entry
    BY <2>0
  <2>2. answers[k].id <= pos
    BY DEF IInv, LoopInv
  <2> QED BY <2>1, <2>2, MaxLinesAssumption DEF Entry
<1>4. MaxLines \in Nat /\ Len(lines) <= MaxLines
  BY MaxLinesAssumption DEF IInv, LoopInv
<1>5. \A k \in 1..Len(lines) : lines[k] \in Line
  BY <1>1
<1> QED BY <1>1, <1>2, <1>3, <1>4, <1>5

(* One answer more, with the number of a line that no answer has yet or    *)
(* without one.                                                            *)
LEMMA RespondKeeps ==
    ASSUME IInv, NEW id \in 0..MaxLines, NEW outcome \in Outcome, Respond(id, outcome),
           id # 0 => \A k \in DOMAIN answers : answers[k].id < id,
           UNCHANGED <<lines, buffered>>, pos' \in Nat, pos <= pos', id <= pos', pos' <= buffered,
           closed' \in BOOLEAN, pc' \in {"read", "dead"}, msg' \in Message \cup {NoMessage},
           id # 0 => RequestsDone' = RequestsDone \cup {id},
           id = 0 => RequestsDone' = RequestsDone
    PROVE  IInv'
<1>1. /\ answers' \in Seq([id : 0..MaxLines, outcome : Outcome])
      /\ {answers'[k].id : k \in DOMAIN answers'} = {answers[k].id : k \in DOMAIN answers} \cup {id}
      /\ \A k, l \in DOMAIN answers' :
            k < l /\ answers'[k].id # 0 /\ answers'[l].id # 0 => answers'[k].id < answers'[l].id
  <2>1. TypeOK /\ \A k \in DOMAIN answers : answers[k].id <= pos
    BY DEF IInv, LoopInv
  <2>2. \A k, l \in DOMAIN answers :
            k < l /\ answers[k].id # 0 /\ answers[l].id # 0 => answers[k].id < answers[l].id
    BY DEF IInv, AnswersMatch
  <2> QED BY <2>1, <2>2, OneMoreAnswer
<1>2. TypeOK'
  BY <1>1, InvParts DEF TypeOK, Line
<1>3. LoopInv'
  <2>1. \A k \in DOMAIN answers' : answers'[k].id \in {answers[j].id : j \in DOMAIN answers} \cup {id}
    BY <1>1
  <2>2. ASSUME NEW k \in DOMAIN answers' PROVE answers'[k].id <= pos'
    <3>1. \A j \in DOMAIN answers : answers[j].id \in Nat /\ answers[j].id <= pos /\ pos \in Nat
      BY InvParts
    <3>2. \A n \in {answers[j].id : j \in DOMAIN answers} \cup {id} : n <= pos'
      BY <3>1
    <3> QED BY <2>1, <3>2
  <2>3. Len(lines') <= MaxLines /\ pc' \notin {"dispatch", "audit"}
    BY InvParts
  <2> QED BY <2>2, <2>3 DEF LoopInv
<1>4. AnswersMatch'
  <2>1. {answers[k].id : k \in DOMAIN answers} \ {0} = RequestsDone
    BY DEF IInv, AnswersMatch
  <2>2. {answers'[k].id : k \in DOMAIN answers'} \ {0} = RequestsDone'
    BY <1>1, <2>1
  <2> QED BY <1>1, <2>2 DEF AnswersMatch
<1> QED BY <1>2, <1>3, <1>4 DEF IInv

(* No answer, and nothing done with that is a request. *)
LEMMA SilenceKeeps ==
    ASSUME IInv, UNCHANGED <<lines, answers>>, pos' \in Nat, pos <= pos', pos' <= buffered',
           buffered' \in Nat, buffered' <= Len(lines),
           closed' \in BOOLEAN, pc' \in {"read", "dead", "undecoded", "ended"}, msg' \in Message \cup {NoMessage},
           RequestsDone' = RequestsDone
    PROVE  IInv'
<1>1. TypeOK'
  BY InvParts DEF TypeOK, Line
<1>2. LoopInv'
  <2>1. ASSUME NEW k \in DOMAIN answers' PROVE answers'[k].id <= pos'
    <3>1. k \in DOMAIN answers /\ answers'[k].id = answers[k].id
      BY <2>1
    <3>2. answers[k].id \in Nat /\ answers[k].id <= pos /\ pos \in Nat
      BY <3>1, InvParts
    <3> QED BY <3>1, <3>2
  <2>2. Len(lines') <= MaxLines /\ pc' \notin {"dispatch", "audit"}
    BY InvParts
  <2> QED BY <2>1, <2>2 DEF LoopInv
<1>3. AnswersMatch'
  BY DEF IInv, AnswersMatch
<1> QED BY <1>1, <1>2, <1>3 DEF IInv

(* The message at hand stays, or its audit begins. *)
LEMMA SameMessage ==
    ASSUME IInv, UNCHANGED <<lines, buffered, pos, msg, answers>>, closed' \in BOOLEAN,
           \/ pc' = pc
           \/ pc = "dispatch" /\ pc' = "audit" /\ msg.method \in {"audit", "audit raising"}
    PROVE  IInv'
<1>1. TypeOK'
  BY DEF IInv, TypeOK
<1>2. LoopInv'
  <2>1. /\ Len(lines') <= MaxLines
        /\ pc' \in {"dispatch", "audit"} => pos' > 0 /\ msg' = lines'[pos'] /\ IsMessage(msg')
        /\ pc' = "audit" => msg'.method \in {"audit", "audit raising"}
    BY DEF IInv, LoopInv, IsMessage
  <2>2. \A k \in DOMAIN answers' : answers'[k].id <= pos'
    BY DEF IInv, LoopInv
  <2> QED BY <2>1, <2>2 DEF LoopInv
<1>3. RequestsDone' = RequestsDone
  <2>1. Done' = Done
    BY DEF Done
  <2> QED BY <2>1 DEF RequestsDone, IsRequest, IsMessage
<1>4. AnswersMatch'
  BY <1>3 DEF IInv, AnswersMatch
<1> QED BY <1>1, <1>2, <1>4 DEF IInv

(* A line that the loop reads and does not dispatch is no request.         *)
LEMMA ReadKeepsDone ==
    ASSUME IInv, NEW text, Reads(text), pc' \in {"read", "dead"}
    PROVE  /\ RequestsDone' = RequestsDone
           /\ UNCHANGED <<lines, closed, buffered, msg>>
           /\ pos' \in Nat /\ pos <= pos' /\ pos' <= buffered /\ pos' <= buffered'
           /\ buffered' \in Nat /\ buffered' <= Len(lines)
           /\ closed' \in BOOLEAN /\ msg' \in Message \cup {NoMessage}
<1>1. UNCHANGED <<lines, closed, buffered, msg>> /\ pos' = pos + 1 /\ pos < buffered /\ pc = "read"
      /\ lines[pos + 1] = [text |-> text]
  BY DEF Reads
<1>2. closed \in BOOLEAN /\ msg \in Message \cup {NoMessage}
  BY DEF IInv, TypeOK
<1>3. ~IsRequest(lines[pos + 1])
  BY <1>1 DEF IsRequest, IsMessage
<1>4. Done = pos /\ Done' \in {pos, pos + 1} /\ pos \in Nat
  BY <1>1, InvParts DEF Done
<1>5. RequestsDone = {k \in 1..pos : IsRequest(lines[k])}
  BY <1>4 DEF RequestsDone
<1>6. RequestsDone' = {k \in 1..Done' : IsRequest(lines[k])}
  BY <1>1 DEF RequestsDone, IsRequest, IsMessage
<1>7. RequestsDone' = RequestsDone
  <2>1. \A k \in 1..(pos + 1) : k \in 1..pos \/ k = pos + 1
    BY <1>4
  <2> QED BY <1>3, <1>4, <1>5, <1>6, <2>1
<1> QED BY <1>1, <1>2, <1>7, InvParts

(* The end of the work on a message.                                       *)
LEMMA WorkIsDone ==
    ASSUME IInv, pc \in {"dispatch", "audit"}, pc' = "read", UNCHANGED <<lines, closed, buffered, pos, msg>>
    PROVE  /\ IsRequest(msg) => RequestsDone' = RequestsDone \cup {pos}
           /\ ~IsRequest(msg) => RequestsDone' = RequestsDone
           /\ pos \in 1..MaxLines /\ msg \in Message
           /\ closed' \in BOOLEAN /\ msg' \in Message \cup {NoMessage}
           /\ pos' \in Nat /\ pos <= pos' /\ pos' <= buffered /\ pos' <= buffered'
           /\ buffered' \in Nat /\ buffered' <= Len(lines)
<1>1. pos > 0 /\ msg = lines[pos] /\ IsMessage(msg)
  BY DEF IInv, LoopInv
<1>2. /\ pos \in 1..MaxLines /\ pos' \in Nat /\ pos <= pos' /\ pos' <= buffered /\ pos' <= buffered'
      /\ buffered' \in Nat /\ buffered' <= Len(lines)
  BY <1>1, InvParts
<1>3. msg \in Message
  BY <1>1, <1>2, InvParts, LineKinds
<1>4. closed' \in BOOLEAN
  BY DEF IInv, TypeOK
<1>5. Done = pos - 1 /\ Done' = pos
  BY DEF Done
<1>6. RequestsDone = {k \in 1..(pos - 1) : IsRequest(lines[k])}
  BY <1>5 DEF RequestsDone
<1>7. RequestsDone' = {k \in 1..pos : IsRequest(lines[k])}
  BY <1>5 DEF RequestsDone, IsRequest, IsMessage
<1>8. /\ IsRequest(msg) => RequestsDone' = RequestsDone \cup {pos}
      /\ ~IsRequest(msg) => RequestsDone' = RequestsDone
  BY <1>1, <1>2, <1>6, <1>7, OneMoreDone
<1> QED BY <1>2, <1>3, <1>4, <1>8

(* An answer to the message with its id, if it has one.                    *)
LEMMA AnsweredById ==
    ASSUME IInv, pc \in {"dispatch", "audit"}, pc' = "read", UNCHANGED <<lines, closed, buffered, pos, msg>>,
           NEW outcome \in Outcome, Respond(MsgId, outcome), msg.method # "initialized"
    PROVE  IInv'
<1>1. /\ IsRequest(msg) => RequestsDone' = RequestsDone \cup {pos}
      /\ ~IsRequest(msg) => RequestsDone' = RequestsDone
      /\ pos \in 1..MaxLines /\ msg \in Message
      /\ closed' \in BOOLEAN /\ msg' \in Message \cup {NoMessage}
      /\ pos' \in Nat /\ pos <= pos' /\ pos' <= buffered
  BY WorkIsDone
<1>2. IsRequest(msg) <=> msg.hasId
  BY <1>1, LineKinds DEF IsRequest, Message
<1>3. MsgId \in 0..MaxLines /\ MsgId <= pos' /\ ((MsgId = pos /\ IsRequest(msg)) \/ (MsgId = 0 /\ ~IsRequest(msg)))
  <2>1. CASE msg.hasId
    <3>1. MsgId = pos /\ IsRequest(msg)
      BY <1>2, <2>1 DEF MsgId
    <3>2. pos \in 0..MaxLines /\ pos <= pos'
      BY <1>1
    <3>3. MsgId \in 0..MaxLines /\ MsgId <= pos'
      BY <3>1, <3>2
    <3> QED BY <3>1, <3>3
  <2>2. CASE ~msg.hasId
    <3>1. MsgId = 0 /\ ~IsRequest(msg)
      BY <1>2, <2>2 DEF MsgId
    <3>2. 0 \in 0..MaxLines /\ 0 <= pos'
      BY <1>1, MaxLinesAssumption
    <3>3. MsgId \in 0..MaxLines /\ MsgId <= pos'
      BY <3>1, <3>2
    <3> QED BY <3>1, <3>3
  <2> QED BY <2>1, <2>2
<1>4. MsgId # 0 => \A k \in DOMAIN answers : answers[k].id < MsgId
  <2>1. SUFFICES ASSUME MsgId # 0, NEW k \in DOMAIN answers PROVE answers[k].id < pos
    BY <1>3
  <2>2. answers[k].id = 0 \/ answers[k].id \in RequestsDone
    BY DEF IInv, AnswersMatch
  <2>3. RequestsDone \subseteq 1..(pos - 1)
    BY DEF RequestsDone, Done
  <2>4. answers[k].id = 0 \/ answers[k].id \in 1..(pos - 1)
    BY <2>2, <2>3
  <2>5. pos \in Nat /\ pos > 0
    BY <1>1
  <2> QED BY <2>4, <2>5
<1>5. (MsgId # 0 => RequestsDone' = RequestsDone \cup {MsgId}) /\ (MsgId = 0 => RequestsDone' = RequestsDone)
  BY <1>1, <1>3
<1> QED BY <1>1, <1>3, <1>4, <1>5, RespondKeeps

LEMMA InvStep == IInv /\ [Next]_vars => IInv'
<1> SUFFICES ASSUME IInv, [Next]_vars PROVE IInv'
  OBVIOUS
<1> USE DEF Dispatch
<1>1. CASE UNCHANGED vars
  <2>1. UNCHANGED <<lines, buffered, pos, msg, answers>> /\ closed' = closed /\ pc' = pc
    BY <1>1 DEF vars
  <2>2. closed' \in BOOLEAN
    BY <2>1 DEF IInv, TypeOK
  <2> QED BY <2>1, <2>2, SameMessage
<1>2. ASSUME NEW line \in Line, Write(line) PROVE IInv'
  <2>1. /\ lines' = Append(lines, line) /\ Len(lines) < MaxLines
        /\ UNCHANGED <<closed, buffered, pos, pc, msg, answers>>
    BY <1>2 DEF Write
  <2>2. lines' \in Seq(Line) /\ Len(lines') = Len(lines) + 1
    BY <2>1, InvParts
  <2>3. \A k \in 1..Len(lines) : lines'[k] = lines[k]
    BY <2>1, InvParts
  <2>4. TypeOK'
    <3>1. buffered' \in 0..Len(lines') /\ pos' \in 0..buffered'
      BY <2>1, <2>2, InvParts
    <3> QED BY <2>1, <2>2, <3>1 DEF IInv, TypeOK, Line
  <2>5. LoopInv'
    <3>1. Len(lines') <= MaxLines
      BY <2>1, <2>2, InvParts
    <3>2. pos > 0 => lines'[pos] = lines[pos]
      BY <2>3, InvParts
    <3> QED BY <2>1, <3>1, <3>2 DEF IInv, LoopInv, IsMessage
  <2>6. RequestsDone' = RequestsDone
    <3>1. Done' = Done /\ Done <= Len(lines) /\ Done \in Int
      BY <2>1, InvParts DEF Done
    <3>2. \A k \in 1..Done : lines'[k] = lines[k]
      BY <2>3, <3>1, InvParts
    <3> QED BY <3>1, <3>2 DEF RequestsDone, IsRequest, IsMessage
  <2>7. AnswersMatch'
    BY <2>1, <2>6 DEF IInv, AnswersMatch
  <2> QED BY <2>4, <2>5, <2>7 DEF IInv
<1>3. CASE Close
  <2>1. UNCHANGED <<lines, buffered, pos, msg, answers>> /\ closed' \in BOOLEAN /\ pc' = pc
    BY <1>3 DEF Close
  <2> QED BY <2>1, SameMessage
<1>4. CASE SkipBlank
  <2>1. Reads("blank") /\ answers' = answers /\ pc' = "read" /\ UNCHANGED lines
    BY <1>4 DEF SkipBlank, Reads
  <2> QED BY <2>1, ReadKeepsDone, SilenceKeeps
<1>5. CASE ParseError
  <2>1. Reads("garbage") /\ Respond(0, "parse error") /\ pc' = "read" /\ UNCHANGED <<lines, buffered>>
    BY <1>5 DEF ParseError, Reads
  <2>2. "parse error" \in Outcome /\ 0 \in 0..MaxLines
    BY MaxLinesAssumption DEF Outcome
  <2>3. /\ RequestsDone' = RequestsDone
        /\ pos' \in Nat /\ pos <= pos' /\ pos' <= buffered
        /\ closed' \in BOOLEAN /\ msg' \in Message \cup {NoMessage}
    <3>1. Reads("garbage") /\ pc' \in {"read", "dead"}
      BY <2>1
    <3> QED BY <3>1, ReadKeepsDone
  <2>4. 0 <= pos'
    BY <2>3
  <2> QED BY <2>1, <2>2, <2>3, <2>4, RespondKeeps
<1>6. CASE Crash
  <2>1. PICK text : Reads(text)
    BY <1>6 DEF Crash
  <2>2. answers' = answers /\ pc' = "dead"
    BY <1>6 DEF Crash
  <2>3. UNCHANGED lines
    BY <2>1 DEF Reads
  <2> QED BY <2>1, <2>2, <2>3, ReadKeepsDone, SilenceKeeps
<1>7. CASE Parse
  <2>1. /\ pc = "read" /\ pc' = "dispatch" /\ pos < buffered /\ pos' = pos + 1
        /\ IsMessage(lines[pos + 1]) /\ msg' = lines[pos + 1] /\ UNCHANGED <<lines, closed, buffered, answers>>
    BY <1>7 DEF Parse
  <2>2. pos + 1 \in 1..Len(lines) /\ lines[pos + 1] \in Message
    BY <2>1, InvParts, LineKinds
  <2>3. TypeOK'
    BY <2>1, <2>2 DEF IInv, TypeOK
  <2>4. LoopInv'
    <3>1. pos' > 0 /\ msg' = lines'[pos'] /\ IsMessage(msg')
      BY <2>1, InvParts DEF IsMessage
    <3>2. ASSUME NEW k \in DOMAIN answers' PROVE answers'[k].id <= pos'
      BY <2>1, <3>2, InvParts
    <3>3. Len(lines') <= MaxLines
      BY <2>1, InvParts
    <3> QED BY <2>1, <3>1, <3>2, <3>3 DEF LoopInv
  <2>5. Done' = Done
    BY <2>1, InvParts DEF Done
  <2>6. RequestsDone' = RequestsDone
    BY <2>1, <2>5 DEF RequestsDone, IsRequest, IsMessage
  <2>7. AnswersMatch'
    BY <2>1, <2>6 DEF IInv, AnswersMatch
  <2> QED BY <2>3, <2>4, <2>7 DEF IInv
<1>8. CASE Ignored
  <2>1. ~IsRequest(msg)
    BY <1>8 DEF Ignored, IsRequest
  <2>2. pc = "dispatch" /\ pc' = "read" /\ UNCHANGED <<lines, closed, buffered, pos, msg, answers>>
    BY <1>8 DEF Ignored
  <2> QED BY <2>1, <2>2, WorkIsDone, SilenceKeeps
<1>9. CASE UnknownNotification
  <2>1. ~IsRequest(msg)
    BY <1>9 DEF UnknownNotification, IsRequest
  <2>2. pc = "dispatch" /\ pc' = "read" /\ UNCHANGED <<lines, closed, buffered, pos, msg, answers>>
    BY <1>9 DEF UnknownNotification
  <2> QED BY <2>1, <2>2, WorkIsDone, SilenceKeeps
<1>10. CASE Immediate
  <2>1. PICK method \in Method, outcome \in Outcome : Answer(method, outcome) /\ method # "initialized"
    BY <1>10 DEF Immediate, Outcome, Method, Tool
  <2> QED BY <2>1, AnsweredById DEF Answer
<1>11. CASE Raises
  <2>1. /\ pc = "dispatch" /\ pc' = "dead" /\ UNCHANGED <<lines, closed, buffered, pos, msg, answers>>
    BY <1>11 DEF Raises
  <2>2. RequestsDone' = RequestsDone
    BY <2>1 DEF RequestsDone, Done, IsRequest, IsMessage
  <2>3. closed' \in BOOLEAN /\ msg' \in Message \cup {NoMessage}
    BY <2>1 DEF IInv, TypeOK
  <2>4. /\ pos' \in Nat /\ pos <= pos' /\ pos' <= buffered'
        /\ buffered' \in Nat /\ buffered' <= Len(lines)
    BY <2>1, InvParts
  <2> QED BY <2>1, <2>2, <2>3, <2>4, SilenceKeeps
<1>12. CASE StartAudit
  <2>1. /\ pc = "dispatch" /\ pc' = "audit" /\ UNCHANGED <<lines, buffered, pos, msg, answers>> /\ closed' = closed
        /\ msg.method \in {"audit", "audit raising"}
    BY <1>12 DEF StartAudit
  <2>2. closed' \in BOOLEAN
    BY <2>1 DEF IInv, TypeOK
  <2> QED BY <2>1, <2>2, SameMessage
<1>13. CASE AuditDone
  <2>1. msg.method # "initialized" /\ "result" \in Outcome
    BY <1>13 DEF AuditDone, Outcome
  <2> QED BY <1>13, <2>1, AnsweredById DEF AuditDone
<1>14. CASE AuditRaises
  <2>1. msg.method # "initialized" /\ "tool error" \in Outcome
    BY <1>14 DEF AuditRaises, Outcome
  <2> QED BY <1>14, <2>1, AnsweredById DEF AuditRaises
<1>15. CASE EndOfInput
  <2>1. pc = "read" /\ pc' = "ended" /\ UNCHANGED <<lines, closed, buffered, pos, msg, answers>>
    BY <1>15 DEF EndOfInput
  <2>2. RequestsDone' = RequestsDone
    BY <2>1 DEF RequestsDone, Done, IsRequest, IsMessage
  <2>3. closed' \in BOOLEAN /\ msg' \in Message \cup {NoMessage}
    BY <2>1 DEF IInv, TypeOK
  <2>4. /\ pos' \in Nat /\ pos <= pos' /\ pos' <= buffered'
        /\ buffered' \in Nat /\ buffered' <= Len(lines)
    BY <2>1, InvParts
  <2> QED BY <2>1, <2>2, <2>3, <2>4, SilenceKeeps
<1>17. CASE FillBuffer
  <2>1. /\ pc = "read" /\ UNCHANGED <<lines, closed, pos, msg, answers>>
        /\ \/ pc' = "undecoded" /\ buffered' = buffered
           \/ pc' = "read" /\ buffered' \in (buffered + 1)..Len(lines)
    BY <1>17 DEF FillBuffer
  <2>2. RequestsDone' = RequestsDone
    BY <2>1 DEF RequestsDone, Done, IsRequest, IsMessage
  <2>3. closed' \in BOOLEAN /\ msg' \in Message \cup {NoMessage}
    BY <2>1 DEF IInv, TypeOK
  <2>4. /\ pos' \in Nat /\ pos <= pos' /\ pos' <= buffered'
        /\ buffered' \in Nat /\ buffered' <= Len(lines)
    BY <2>1, InvParts
  <2> QED BY <2>1, <2>2, <2>3, <2>4, SilenceKeeps
<1>16. CASE Stop
  BY <1>1, <1>16 DEF Stop
<1> QED
  BY <1>1, <1>2, <1>3, <1>4, <1>5, <1>6, <1>7, <1>8, <1>9, <1>10, <1>11, <1>12, <1>13, <1>14,
     <1>15, <1>16, <1>17 DEF Next, Serve, Line

LEMMA Invariant == Spec => []IInv
BY InvInit, InvStep, PTL DEF Spec

(* The loop's state and its answers have their types.                      *)
THEOREM TypeCorrect == Spec => []TypeOK
<1>1. IInv => TypeOK
  BY DEF IInv
<1> QED BY <1>1, Invariant, PTL

(* However many lines the client writes, the answers that have an id are   *)
(* those of the requests done with, once each and in their order.          *)
THEOREM AnswersAreMatched == Spec => []AnswersMatch
<1>1. IInv => AnswersMatch
  BY DEF IInv
<1> QED BY <1>1, Invariant, PTL
=============================================================================
