---------------------------- MODULE EventStream ----------------------------
\* The event stream parser of the server-sent events client
\* (sse/EventStreamParser.cpp) and the body callback that feeds it
\* (session/SseClient.cpp).  The transport hands over the stream in pieces
\* cut anywhere, inside a line, inside a line end, so the parser keeps
\* what a piece leaves open.
\*
\* The server writes a document: a sequence of lines with a field name, a
\* value and a line end.  EsText renders it; what the events of a document
\* are is said on its lines (EsEventsOf), without any text.  A byte is a
\* string; a field name is one byte.
EXTENDS Integers, Sequences, FiniteSets, SequencesExt

CONSTANTS
    EsDocuments,    \* documents the server may write
    EsMaxLine,      \* MaxParserBufferBytes
    EsMaxEvent,     \* MaxEventBytes
    EsFirstBuffer,  \* the size a buffer starts with
    EsMaxRetry,     \* MAXULONG
    EsMemory,       \* sizes beyond which an allocation fails
    EsQueueRooms,   \* how many events the client's queue takes
    EsSplitsBom     \* whether a piece may end inside the byte order mark

ASSUME EsAssumption ==
    /\ {EsMaxLine, EsMaxEvent, EsFirstBuffer} \subseteq Nat \ {0}
    /\ EsMaxRetry \in Nat /\ EsMemory \subseteq Nat /\ EsQueueRooms \subseteq Nat /\ EsSplitsBom \in BOOLEAN

VARIABLES
    esDocument,     \* what the server writes
    esFed,          \* how many bytes of it were handed over
    esParser,       \* the parser: [buf, cap, sawBom, pendingCr, hasId, retry, status]
    esClient        \* [memory, room, events]: what the callback sees

esVars == <<esDocument, esFed, esParser, esClient>>

EsBom == <<"ef", "bb", "bf">>
EsDigits == <<"0", "1", "2", "3", "4", "5", "6", "7", "8", "9">>
EsBuffers == {"line", "data", "type", "id", "last"}
EsNoRetry == -1

EsHardMax(b) == IF b = "line" THEN EsMaxLine ELSE EsMaxEvent
EsOk(s) == s.status = "OK"
EsFails(s, status) == [s EXCEPT !.status = status]

----------------------------------------
(* The parser.  The operators take and return s, the parser with the       *)
(* client's fields; after an error nothing else is done.                   *)

EsClearCurrentEvent(s) ==
    [s EXCEPT !.buf = [b \in EsBuffers |-> IF b \in {"data", "type", "id"} THEN <<>> ELSE s.buf[b]],
              !.hasId = FALSE]

\* The capacity doubles until it is enough or as large as it may be.
EsGrown(capacity, needed, hardMax) ==
    LET doubled[n \in 1 .. hardMax] ==
            IF n >= needed THEN n ELSE IF n > hardMax \div 2 THEN hardMax ELSE doubled[2 * n]
    IN  doubled[capacity]

EsEnsureCapacity(s, b, needed) ==
    LET grown == EsGrown(s.cap[b], needed, EsHardMax(b))
    IN  IF needed > EsHardMax(b) THEN EsFails(s, "OVERFLOW")
        ELSE IF s.cap[b] >= needed THEN s
        ELSE IF grown > s.memory THEN EsFails(s, "RESOURCES")
        ELSE [s EXCEPT !.cap[b] = grown]

EsAppendBytes(s, b, bytes) ==
    LET held == EsEnsureCapacity(s, b, Len(s.buf[b]) + Len(bytes))
    IN  IF bytes = <<>> \/ ~EsOk(s) THEN s
        ELSE IF EsOk(held) THEN [held EXCEPT !.buf[b] = @ \o bytes] ELSE held

\* A field that replaces what the buffer holds.
EsStore(s, b, bytes) ==
    LET held == EsEnsureCapacity(s, b, IF bytes = <<>> THEN 1 ELSE Len(bytes))
    IN  IF EsOk(held) THEN [held EXCEPT !.buf[b] = bytes] ELSE held

\* The callback: EnqueueEvent refuses what the queue has no room for.
EsDeliver(s, event) ==
    IF Len(s.events) < s.room THEN [s EXCEPT !.events = Append(@, event)]
    ELSE EsFails(s, "REFUSED")

\* A blank line: the id is kept even if there is no data to deliver.
EsDispatchEvent(s) ==
    LET named == s.hasId /\ ~Contains(s.buf["id"], "nul")
        kept == IF named THEN EsStore(s, "last", s.buf["id"]) ELSE s
        data == s.buf["data"]
        event == [type |-> IF s.buf["type"] = <<>> THEN <<"message">> ELSE s.buf["type"],
                  data |-> IF Last(data) = "lf" THEN Front(data) ELSE data,
                  id |-> IF named THEN <<kept.buf["last"]>> ELSE <<>>]
    IN  IF ~EsOk(kept) THEN kept
        ELSE IF data = <<>> THEN EsClearCurrentEvent(kept)
        ELSE EsClearCurrentEvent(EsDeliver(kept, event))

\* A number that does not fit is no number.
EsNumber(digits) ==
    LET value(d) == CHOOSE v \in 0 .. 9 : EsDigits[v + 1] = d
        next(v, d) == IF v = EsNoRetry \/ v > (EsMaxRetry - value(d)) \div 10 THEN EsNoRetry
                      ELSE 10 * v + value(d)
    IN  FoldLeft(next, 0, digits)

EsRetry(s, value) ==
    LET valid == value # <<>> /\ \A i \in DOMAIN value : Contains(EsDigits, value[i])
    IN  IF valid /\ EsNumber(value) # EsNoRetry THEN [s EXCEPT !.retry = EsNumber(value)] ELSE s

EsProcessLine(s, line) ==
    LET colon == SelectInSeq(line \o <<":">>, LAMBDA c : c = ":")
        name == SubSeq(line, 1, colon - 1)
        rest == SubSeq(line, colon + 1, Len(line))
        value == IF rest # <<>> /\ rest[1] = " " THEN Tail(rest) ELSE rest
    IN  CASE line = <<>> -> EsDispatchEvent(s)
          [] name = <<"data">> -> EsAppendBytes(EsAppendBytes(s, "data", value), "data", <<"lf">>)
          [] name = <<"event">> -> EsStore(s, "type", value)
          [] name = <<"id">> -> LET held == EsStore(s, "id", value)
                                IN  [held EXCEPT !.hasId = EsOk(held) \/ @]
          [] name = <<"retry">> -> EsRetry(s, value)
          [] OTHER -> s

\* The first line end of text: where it is and how long, 0 if there is none or
\* it may go on.
EsLineEnd(text) ==
    LET at == SelectInSeq(text, LAMBDA c : c \in {"cr", "lf"})
    IN  IF at = 0 \/ (text[at] = "cr" /\ at = Len(text)) THEN [at |-> 0, length |-> 0]
        ELSE [at |-> at, length |-> IF text[at] = "cr" /\ text[at + 1] = "lf" THEN 2 ELSE 1]

\* Complete lines are processed; what is left moves to the front of the buffer.
EsProcessBufferedLines(s) ==
    LET step(acc, i) ==
            LET end == EsLineEnd(acc.buf["line"])
                line == SubSeq(acc.buf["line"], 1, end.at - 1)
                left == SubSeq(acc.buf["line"], end.at + end.length, Len(acc.buf["line"]))
            IN  IF ~EsOk(acc) \/ end.at = 0 THEN acc
                ELSE EsProcessLine([acc EXCEPT !.buf["line"] = left], line)
    IN  FoldLeft(step, s, s.buf["line"])

\* The line that a CR at the end of the piece before has ended.
EsPendingLine(s) ==
    EsProcessLine([s EXCEPT !.pendingCr = FALSE, !.buf["line"] = <<>>], s.buf["line"])

\* A parser that takes a CR for a line end at once.
EsCrEndsLine(s, piece) ==
    LET data == IF piece # <<>> /\ Last(piece) = "cr" THEN Append(Front(piece), "lf") ELSE piece
    IN  EsProcessBufferedLines(EsAppendBytes([s EXCEPT !.sawBom = TRUE], "line", data))

EsFeed(s, piece) ==
    LET bom == ~s.sawBom /\ Len(piece) >= 3 /\ SubSeq(piece, 1, 3) = EsBom
        data == IF bom THEN SubSeq(piece, 4, Len(piece)) ELSE piece
        begun == [s EXCEPT !.sawBom = TRUE]
        ended == IF s.pendingCr THEN EsPendingLine(begun) ELSE begun
        rest == IF s.pendingCr /\ data[1] = "lf" THEN Tail(data) ELSE data
        cr == rest # <<>> /\ Last(rest) = "cr"
        appended == EsAppendBytes(ended, "line", IF cr THEN Front(rest) ELSE rest)
        lines == IF EsOk(appended) THEN EsProcessBufferedLines(appended) ELSE appended
    IN  IF data = <<>> THEN begun
        ELSE IF ~EsOk(ended) \/ rest = <<>> THEN ended
        ELSE IF EsOk(lines) THEN [lines EXCEPT !.pendingCr = cr] ELSE lines

EsFinish(s) ==
    LET ended == IF s.pendingCr THEN EsPendingLine(s) ELSE s
    IN  IF EsOk(ended) THEN EsClearCurrentEvent([ended EXCEPT !.buf["line"] = <<>>, !.status = "DONE"])
        ELSE ended

----------------------------------------
(* Documents: what is written, and which events that is.                   *)

EsEndText == [lf |-> <<"lf">>, cr |-> <<"cr">>, crlf |-> <<"cr", "lf">>, open |-> <<>>]

EsLineText(line) ==
    LET colon == IF line.colon THEN <<":">> \o line.space ELSE <<>>
    IN  line.name \o colon \o line.value \o EsEndText[line.end]

EsText(document) ==
    (IF document.bom THEN EsBom ELSE <<>>) \o FlattenSeq([i \in DOMAIN document.lines |->
                                                            EsLineText(document.lines[i])])

\* Where line i ends in the text; a CR is an end once another byte has come.
EsEndOf(document, i) ==
    Len(EsText([document EXCEPT !.lines = SubSeq(@, 1, i)])) +
        (IF document.lines[i].end = "cr" THEN 1 ELSE 0)

EsBlanks(lines) ==
    {i \in DOMAIN lines : lines[i].name = <<>> /\ ~lines[i].colon /\ lines[i].end # "open"}

EsValues(lines, name) ==
    LET named == SelectSeq(lines, LAMBDA l : l.name = <<name>>)
    IN  [i \in DOMAIN named |-> named[i].value]

EsFinal(values, default) == IF values = <<>> THEN default ELSE Last(values)

\* A blank line tells the event of the lines since the blank line before.
EsEvents(lines) ==
    LET blanks == EsBlanks(lines)
        first(b) == CHOOSE i \in 1 .. b : i - 1 \in blanks \cup {0} /\ \A j \in i .. b - 1 : j \notin blanks
        values(b, name) == EsValues(SubSeq(lines, first(b), b), name)
        type(b) == EsFinal(values(b, "event"), <<>>)
        event(b) == [type |-> IF type(b) = <<>> THEN <<"message">> ELSE type(b),
                     data |-> Tail(FlattenSeq([i \in DOMAIN values(b, "data") |->
                                                  <<"lf">> \o values(b, "data")[i]])),
                     id |-> IF Contains(EsFinal(values(b, "id"), <<"nul">>), "nul") THEN <<>>
                            ELSE <<Last(values(b, "id"))>>]
        told == SelectSeq([i \in DOMAIN lines |-> i],
                          LAMBDA b : b \in blanks /\ values(b, "data") # <<>>)
    IN  [i \in DOMAIN told |-> event(told[i])]

\* The id to resume from: the last one without NUL, with or without data.
EsResumeId(lines) ==
    LET told == {i \in DOMAIN lines : \E b \in EsBlanks(lines) : i <= b}
        ids == SelectSeq(EsValues(SubSeq(lines, 1, Cardinality(told)), "id"),
                         LAMBDA v : ~Contains(v, "nul"))
    IN  EsFinal(ids, <<>>)

\* The delay to reconnect after: the last one that is a number of 32 bits.
EsDelay(lines) ==
    LET digit(c) == {v \in 0 .. 9 : EsDigits[v + 1] = c}
        numbers(value) == {n \in 0 .. EsMaxRetry :
            /\ value # <<>>
            /\ \A i \in DOMAIN value : (n \div (10 ^ (Len(value) - i))) % 10 \in digit(value[i])
            /\ n < 10 ^ Len(value)}
        valid == SelectSeq(EsValues(lines, "retry"), LAMBDA v : numbers(v) # {})
    IN  IF valid = <<>> THEN EsNoRetry ELSE CHOOSE n \in numbers(Last(valid)) : TRUE

\* The lines that are complete once n bytes are there.
EsComplete(document, n) ==
    LET ends == {i \in DOMAIN document.lines : document.lines[i].end # "open" /\ EsEndOf(document, i) <= n}
    IN  SubSeq(document.lines, 1, Cardinality(ends))

----------------------------------------
(* A parser that Initialize made ready, for a stream of the transport.     *)

EsInit ==
    /\ esDocument \in EsDocuments
    /\ esFed = 0
    /\ esParser = [buf |-> [b \in EsBuffers |-> <<>>],
                   cap |-> [b \in EsBuffers |-> IF EsHardMax(b) < EsFirstBuffer THEN EsHardMax(b)
                                                ELSE EsFirstBuffer],
                   sawBom |-> FALSE, pendingCr |-> FALSE, hasId |-> FALSE, retry |-> EsNoRetry,
                   status |-> "OK"]
    /\ \E memory \in EsMemory, room \in EsQueueRooms :
          esClient = [memory |-> memory, room |-> room, events |-> <<>>]

EsBoth == [f \in DOMAIN esParser \cup DOMAIN esClient |->
              IF f \in DOMAIN esParser THEN esParser[f] ELSE esClient[f]]

EsResult(s) ==
    /\ esParser' = [f \in DOMAIN esParser |-> s[f]]
    /\ esClient' = [f \in DOMAIN esClient |-> s[f]]
    /\ UNCHANGED esDocument

EsBodyCallback(n) ==
    /\ esParser.status = "OK" /\ n > 0 /\ esFed + n <= Len(EsText(esDocument))
    /\ EsSplitsBom \/ ~esDocument.bom \/ esFed + n >= Len(EsBom)
    /\ EsResult(EsFeed(EsBoth, SubSeq(EsText(esDocument), esFed + 1, esFed + n)))
    /\ esFed' = esFed + n

EsFinalCallback ==
    /\ esParser.status = "OK" /\ esFed = Len(EsText(esDocument))
    /\ EsResult(EsFinish(EsBoth))
    /\ UNCHANGED esFed

EsNext == EsFinalCallback \/ \E n \in 1 .. Len(EsText(esDocument)) : EsBodyCallback(n)

----------------------------------------
\* However the stream is cut, the application gets the events of the lines that
\* are complete, no earlier and no later; the id to resume from is the last one
\* that was given; a line or event is refused only if it is too long, for want
\* of memory or of room in the queue, and nothing is written past a buffer
\* (Feed, Finish, EnsureCapacity).
EventsAsWritten ==
    LET final == EsEvents(esDocument.lines)
        \* the end of the stream ends a line that a CR ended
        due == EsComplete(esDocument, IF esParser.status = "DONE" THEN esFed + 1 ELSE esFed)
    IN  /\ IsPrefix(esClient.events, final)
        /\ esParser.status \in {"OK", "DONE"} =>
              /\ esClient.events = EsEvents(due)
              /\ esParser.buf["last"] = EsResumeId(due)
              /\ esParser.retry = EsDelay(due)
        /\ esParser.status = "REFUSED" => Len(esClient.events) = esClient.room /\ Len(final) > esClient.room
        /\ esParser.status = "OVERFLOW" =>
              \/ Len(EsText(esDocument)) > EsMaxLine
              \/ \E e \in DOMAIN final : Len(final[e].data) + 1 > EsMaxEvent
        /\ \A b \in EsBuffers : Len(esParser.buf[b]) <= esParser.cap[b] /\ esParser.cap[b] <= EsHardMax(b)
============================================================================
