---------------------------- MODULE QpackTables ----------------------------
\* QPACK between two ends of an HTTP/3 connection: the encoder of one end
\* (qpack/QpackEncoder.cpp), the decoder of the other
\* (qpack/QpackDecoder.cpp), the dynamic table each keeps
\* (qpack/QpackDynamicTable.cpp), and the way Http3Connection drives them.
\*
\* The encoder's instructions, the decoder's instructions and every
\* request stream are separate QUIC streams: each is in order, and any one
\* may run ahead of the others.  Names and values have length one, so an
\* entry counts one against a capacity and its bytes are two cells.
EXTENDS Naturals, Sequences, FiniteSets, FiniteSetsExt, SequencesExt, TLC

CONSTANTS
    QpStreams,          \* request streams
    QpStatic,           \* the static table: pairs <<name, value>>
    QpSensitive,        \* names IsSensitiveName knows
    QpPairs,            \* what the encoder's user inserts
    QpSections,         \* field sections its user sends: sequences of [name, value, sensitive]
    QpCapacity,         \* SETTINGS_QPACK_MAX_TABLE_CAPACITY, in entries
    QpBlockedStreams,   \* SETTINGS_QPACK_BLOCKED_STREAMS
    QpEncoders,         \* "own": QpackEncoder; "another": an RFC 9204 encoder facing QpackDecoder
    QpFragments,        \* an instruction may be split between two reads
    QpCapacities,       \* capacities the encoder's user sets
    QpMaxInserts,       \* bounds: inserts, instructions in flight each way, sections per stream
    QpMaxFlight,
    QpMaxSections

ASSUME QpAssumption ==
    /\ {QpCapacity, QpBlockedStreams, QpMaxInserts, QpMaxFlight, QpMaxSections} \subseteq Nat
    /\ QpCapacity > 0 /\ QpCapacities \subseteq 0 .. QpCapacity
    /\ QpEncoders \subseteq {"own", "another"}
    /\ QpFragments \in BOOLEAN
    /\ \A s \in QpSections : DOMAIN s = 1 .. Len(s)

VARIABLES
    qpEncoder,    \* [kind, table, known, outstanding, pending]
    qpDecoder,    \* [table, reported, blocked, dead]
    qpUp,         \* encoder instructions on their way
    qpDown,       \* decoder instructions on their way
    qpWire,       \* per stream, encoded sections on their way
    qpFailed,     \* what CloseConnection was called with
    qpAsked,      \* history: by absolute index, the pair the encoder's user inserted and whether a
                  \* table stored another name for it
    qpGiven,      \* history: per stream, the sections given to the encoder and what they cite
    qpGot         \* history: per stream, the sections the decoder returned

qpVars == <<qpEncoder, qpDecoder, qpUp, qpDown, qpWire, qpFailed, qpAsked, qpGiven, qpGot>>

QpNoCapacity == QpCapacity + 1
QpRefused == [refused |-> TRUE]
QpZeroed == "zeroed"                    \* a cell RtlSecureZeroMemory cleared

----------------------------------------
(* QpackDynamicTable.                                                      *)

QpEmptyTable == [entries |-> <<>>, capacity |-> 0, count |-> 0]

QpEvictions(t, target) == Max({0, Len(t.entries) - target})

QpValidateEviction(t, target) == \A i \in 1 .. QpEvictions(t, target) : t.entries[i].refs = 0

QpEvictOldest(t, target) ==
    [t EXCEPT !.entries = SubSeq(@, QpEvictions(t, target) + 1, Len(@))]

QpTableSetCapacity(t, capacity) == [QpEvictOldest(t, capacity) EXCEPT !.capacity = capacity]

QpCanInsert(t) == t.capacity > 0 /\ QpValidateEviction(t, t.capacity - 1)

QpInsert(t, name, value) ==
    LET kept == QpEvictOldest(t, t.capacity - 1)
    IN  [kept EXCEPT !.entries = Append(@, [abs |-> t.count, name |-> name, value |-> value, refs |-> 0]),
                     !.count = @ + 1]

\* What a view of entry i's name reads once QpInsert has evicted and CompactData has moved the rest.
QpViewAfterCompaction(t, i) ==
    LET j == i + QpEvictions(t, t.capacity - 1)
    IN  IF j <= Len(t.entries) THEN t.entries[j].name ELSE QpZeroed

QpFindEntry(t, abs) == {i \in DOMAIN t.entries : t.entries[i].abs = abs}
QpLookupRelative(t, base, index) == IF index >= base THEN {} ELSE QpFindEntry(t, base - index - 1)
QpLookupPostBase(t, base, index) == QpFindEntry(t, base + index)

QpFindExact(t, name, value) ==
    {i \in DOMAIN t.entries : t.entries[i].name = name /\ t.entries[i].value = value}
QpFindName(t, name) == {i \in DOMAIN t.entries : t.entries[i].name = name}

QpAddReferences(t, refs) ==
    [t EXCEPT !.entries = [i \in DOMAIN @ |-> IF @[i].abs \in refs THEN [@[i] EXCEPT !.refs = @ + 1] ELSE @[i]]]
QpReleaseReferences(t, refs) ==
    [t EXCEPT !.entries = [i \in DOMAIN @ |-> IF @[i].abs \in refs THEN [@[i] EXCEPT !.refs = @ - 1] ELSE @[i]]]

\* The view of entry i's name has become another name.
QpNameMoves(t, i) == QpViewAfterCompaction(t, i) # t.entries[i].name

----------------------------------------
(* The Required Insert Count on the wire.                                  *)

QpFullRange == 2 * QpCapacity

QpEncodeRequiredInsertCount(required) == IF required = 0 THEN 0 ELSE (required % QpFullRange) + 1

\* The set of what the decoder takes it for: empty when it refuses.
QpDecodeRequiredInsertCount(encoded, total) ==
    LET maxValue == total + QpCapacity
        wrapped  == (maxValue \div QpFullRange) * QpFullRange + encoded - 1
    IN  CASE encoded = 0                                          -> {0}
          [] encoded > QpFullRange                                -> {}
          [] encoded > 0 /\ encoded <= QpFullRange /\ wrapped > maxValue ->
                IF wrapped <= QpFullRange THEN {} ELSE {wrapped - QpFullRange} \ {0}
          [] OTHER                                                -> {wrapped} \ {0}

----------------------------------------
(* QpackEncoder.                                                           *)

QpBlocking(enc) == {i \in DOMAIN enc.outstanding : enc.outstanding[i].required > enc.known}
QpCountBlockedStreams(enc) == Cardinality({enc.outstanding[i].stream : i \in QpBlocking(enc)})
QpStreamIsBlocked(enc, s) == \E i \in QpBlocking(enc) : enc.outstanding[i].stream = s

QpStaticName(name) == \E p \in QpStatic : p[1] = name

\* One turn of the loop of EncodeFieldSection: the line, and what it refers to.
QpEncodeField(enc, stream, acc, field) ==
    LET t         == enc.table
        sensitive == field.sensitive \/ field.name \in QpSensitive
        exact     == QpFindExact(t, field.name, field.value)
        named     == QpFindName(t, field.name)
        tryExact  == exact # {} /\ ~sensitive
        candidate == IF tryExact THEN t.entries[Max(exact)].abs
                     ELSE IF named # {} THEN t.entries[Max(named)].abs ELSE 0
        refused   == /\ candidate + 1 > enc.known
                     /\ ~acc.blocks
                     /\ ~QpStreamIsBlocked(enc, stream)
                     /\ QpCountBlockedStreams(enc) >= QpBlockedStreams
        useExact  == tryExact /\ ~refused
        useName   == named # {} /\ ~refused
        line      == IF ~sensitive /\ <<field.name, field.value>> \in QpStatic
                     THEN [kind |-> "static", name |-> field.name, value |-> field.value]
                     ELSE IF useExact
                     THEN [kind |-> "indexed", abs |-> candidate]
                     ELSE IF useName /\ ~QpStaticName(field.name)
                     THEN [kind |-> "named", abs |-> candidate, value |-> field.value,
                           sensitive |-> sensitive]
                     ELSE [kind |-> "literal", name |-> field.name, value |-> field.value,
                           sensitive |-> sensitive]
        \* Counted also when the line written is a static one.
        referring == useExact \/ useName
    IN  [lines    |-> Append(acc.lines, line),
         refs     |-> IF referring THEN acc.refs \cup {candidate} ELSE acc.refs,
         required |-> IF referring THEN Max({acc.required, candidate + 1}) ELSE acc.required,
         blocks   |-> acc.blocks \/ (referring /\ candidate + 1 > enc.known)]

QpEncodeFields(enc, stream, fields) ==
    FoldLeft(LAMBDA acc, f : QpEncodeField(enc, stream, acc, f),
             [lines |-> <<>>, refs |-> {}, required |-> 0, blocks |-> FALSE], fields)

\* A line on the wire counts down from Base, or up from it (another encoder's does).
QpRelativeLine(line, base) ==
    IF line.kind \notin {"indexed", "named"} THEN line
    ELSE [line EXCEPT !.abs = IF line.abs < base THEN base - line.abs - 1 ELSE line.abs - base]
         @@ [post |-> line.abs >= base]

\* Mutant: the section is remembered and its entries are not held.
QpTrackWithoutReferences(enc, stream, section) ==
    IF section.refs = {} THEN enc
    ELSE [enc EXCEPT !.outstanding = Append(@, [stream |-> stream, required |-> section.required, refs |-> {}])]

QpTrackSection(enc, stream, section) ==
    IF section.refs = {} THEN enc
    ELSE [enc EXCEPT !.table = QpAddReferences(@, section.refs),
                     !.outstanding = Append(@, [stream |-> stream, required |-> section.required,
                                                refs |-> section.refs])]

QpReleaseSection(enc, section) == [enc EXCEPT !.table = QpReleaseReferences(@, section.refs)]

QpOutstandingOf(enc, stream) == {i \in DOMAIN enc.outstanding : enc.outstanding[i].stream = stream}

QpAcknowledgeSection(enc, stream) ==
    LET i == Min(QpOutstandingOf(enc, stream))
        section == enc.outstanding[i]
    IN  [QpReleaseSection(enc, section) EXCEPT !.known = Max({@, section.required}),
                                               !.outstanding = RemoveAt(@, i)]

QpEncoderCancelStream(enc, stream) ==
    [FoldLeft(QpReleaseSection, enc, SelectSeq(enc.outstanding, LAMBDA x : x.stream = stream))
        EXCEPT !.outstanding = SelectSeq(@, LAMBDA x : x.stream # stream)]

----------------------------------------
(* The encoder's user: SetCapacity, DrainPendingCapacity, the inserts, and *)
(* Http3Connection::EncodeFieldSection.                                    *)

QpAlive == qpFailed = "none"

\* What another encoder, following RFC 9204, waits for before it evicts down to
\* target; QpackEncoder looks at references only.
QpMayEvict(enc, target) ==
    enc.kind = "own" \/ \A i \in 1 .. QpEvictions(enc.table, target) : enc.table.entries[i].abs < enc.known

\* ApplyCapacity under a caller's request: refused for now, it stays pending.
QpApplyCapacity(capacity) ==
    IF QpValidateEviction(qpEncoder.table, capacity) /\ QpMayEvict(qpEncoder, capacity)
    THEN /\ qpEncoder' = [qpEncoder EXCEPT !.table = QpTableSetCapacity(@, capacity), !.pending = QpNoCapacity]
         /\ qpUp' = Append(qpUp, [op |-> "capacity", capacity |-> capacity])
    ELSE /\ qpEncoder' = [qpEncoder EXCEPT !.pending = capacity]
         /\ UNCHANGED qpUp

QpSetCapacity(capacity) ==
    /\ QpAlive
    /\ capacity # qpEncoder.table.capacity
    /\ Len(qpUp) < QpMaxFlight
    /\ QpApplyCapacity(capacity)
    /\ UNCHANGED <<qpDecoder, qpDown, qpWire, qpFailed, qpAsked, qpGiven, qpGot>>

QpDrainPendingCapacity ==
    /\ QpAlive
    /\ qpEncoder.pending # QpNoCapacity
    /\ Len(qpUp) < QpMaxFlight
    /\ QpApplyCapacity(qpEncoder.pending)
    /\ UNCHANGED <<qpDecoder, qpDown, qpWire, qpFailed, qpAsked, qpGiven, qpGot>>

\* The pair of entry i as the encoder's user knows it.
QpKnownAs(i) == qpAsked[qpEncoder.table.entries[i].abs + 1]

QpInsertion(stored, asked, instruction) ==
    /\ QpAlive
    /\ qpEncoder.pending = QpNoCapacity
    /\ qpEncoder.table.count < QpMaxInserts /\ Len(qpUp) < QpMaxFlight
    /\ QpCanInsert(qpEncoder.table)
    /\ QpMayEvict(qpEncoder, qpEncoder.table.capacity - 1)
    /\ qpEncoder' = [qpEncoder EXCEPT !.table = QpInsert(@, stored, asked.value)]
    /\ qpUp' = Append(qpUp, instruction)
    /\ qpAsked' = Append(qpAsked, asked)
    /\ UNCHANGED <<qpDecoder, qpDown, qpWire, qpFailed, qpGiven, qpGot>>

QpAsked(pair) == [name |-> pair[1], value |-> pair[2], moved |-> FALSE]

QpInsertWithLiteralName(pair) ==
    /\ ~QpStaticName(pair[1])
    /\ QpInsertion(pair[1], QpAsked(pair), [op |-> "literal", name |-> pair[1], value |-> pair[2]])

QpInsertWithStaticName(pair) ==
    /\ QpStaticName(pair[1])
    /\ QpInsertion(pair[1], QpAsked(pair), [op |-> "static", name |-> pair[1], value |-> pair[2]])

\* QpackEncoder's name is a view of the table the insert moves; another encoder
\* stores the name it refers to.
QpInsertWithNameReference(i, value) ==
    LET t == qpEncoder.table
        e == t.entries[i]
    IN  QpInsertion(IF qpEncoder.kind = "own" THEN QpViewAfterCompaction(t, i) ELSE e.name,
                    [QpKnownAs(i) EXCEPT !.value = value, !.moved = @ \/ QpNameMoves(t, i)],
                    [op |-> "dynamic", index |-> t.count - e.abs - 1, value |-> value])

\* DuplicateRelative copies the entry before it inserts.
QpDuplicate(i) ==
    LET t == qpEncoder.table
        e == t.entries[i]
    IN  QpInsertion(e.name, QpKnownAs(i), [op |-> "duplicate", index |-> t.count - e.abs - 1])

\* A Required Insert Count the decoder, having received what it has, reads as another.
QpRunsAhead(required) == required > qpDecoder.table.count + QpCapacity

\* QpackEncoder's Base is its insert count, another encoder's is zero.
QpEncodeFieldSection(stream, fields) ==
    LET section == QpEncodeFields(qpEncoder, stream, fields)
        base    == IF qpEncoder.kind = "another" \/ section.required = 0 THEN 0 ELSE qpEncoder.table.count
        sign    == base < section.required
        delta   == IF sign THEN section.required - base - 1 ELSE base - section.required
    IN  /\ QpAlive
        /\ Len(qpGiven[stream]) < QpMaxSections
        /\ stream \notin qpDecoder.dead
        /\ qpEncoder' = QpTrackSection(qpEncoder, stream, section)
        /\ qpWire' = [qpWire EXCEPT ![stream] =
                        Append(@, [encoded |-> QpEncodeRequiredInsertCount(section.required),
                                   sign |-> sign, delta |-> delta,
                                   lines |-> [i \in DOMAIN section.lines |->
                                                QpRelativeLine(section.lines[i], base)]])]
        /\ qpGiven' = [qpGiven EXCEPT ![stream] = Append(@, [fields |-> fields, cites |-> section.refs,
                                                                 ahead |-> QpRunsAhead(section.required)])]
        /\ UNCHANGED <<qpDecoder, qpUp, qpDown, qpFailed, qpAsked, qpGot>>

\* One decoder instruction; "refused" is QPACK_DECODER_STREAM_ERROR.
QpProcessDecoderInstruction(enc, in) ==
    CASE in.op = "ack"    -> IF QpOutstandingOf(enc, in.stream) = {} THEN QpRefused
                             ELSE QpAcknowledgeSection(enc, in.stream)
      [] in.op = "cancel" -> IF QpOutstandingOf(enc, in.stream) = {} THEN QpRefused
                             ELSE QpEncoderCancelStream(enc, in.stream)
      [] in.op = "increment" -> IF in.n = 0 \/ in.n > enc.table.count - enc.known THEN QpRefused
                                ELSE [enc EXCEPT !.known = @ + in.n]

QpReceiveDecoderInstruction ==
    /\ QpAlive
    /\ qpDown # <<>>
    /\ LET enc == QpProcessDecoderInstruction(qpEncoder, Head(qpDown))
       IN  /\ qpFailed' = IF enc = QpRefused THEN "decoder stream" ELSE qpFailed
           /\ qpEncoder' = IF enc = QpRefused THEN qpEncoder ELSE enc
    /\ qpDown' = Tail(qpDown)
    /\ UNCHANGED <<qpDecoder, qpUp, qpWire, qpAsked, qpGiven, qpGot>>

----------------------------------------
(* QpackDecoder.                                                           *)

\* One encoder instruction on the decoder's table; "refused" is QPACK_ENCODER_STREAM_ERROR.
QpProcessEncoderInstruction(t, in) ==
    LET found == IF in.op \in {"dynamic", "duplicate"} THEN QpLookupRelative(t, t.count, in.index) ELSE {}
    IN  CASE in.op = "capacity" -> IF in.capacity > QpCapacity THEN QpRefused
                                   ELSE QpTableSetCapacity(t, in.capacity)
          [] in.op \in {"literal", "static"} ->
                IF ~QpCanInsert(t) THEN QpRefused ELSE QpInsert(t, in.name, in.value)
          [] in.op = "dynamic" ->
                IF found = {} \/ ~QpCanInsert(t) THEN QpRefused
                ELSE QpInsert(t, QpViewAfterCompaction(t, Min(found)), in.value)
          [] in.op = "duplicate" ->
                IF found = {} \/ ~QpCanInsert(t) THEN QpRefused
                ELSE QpInsert(t, t.entries[Min(found)].name, t.entries[Min(found)].value)

\* A line as a field; "refused" is QPACK_DECOMPRESSION_FAILED.
QpDecodeLine(t, line, base, required) ==
    CASE line.kind = "static"  -> [name |-> line.name, value |-> line.value, sensitive |-> FALSE]
      [] line.kind = "literal" -> [name |-> line.name, value |-> line.value, sensitive |-> line.sensitive]
      [] OTHER ->
            LET found == IF line.post THEN QpLookupPostBase(t, base, line.abs)
                         ELSE QpLookupRelative(t, base, line.abs)
            IN  IF found = {} \/ \E i \in found : t.entries[i].abs >= required THEN QpRefused
                ELSE LET e == t.entries[Min(found)]
                     IN  IF line.kind = "indexed"
                         THEN [name |-> e.name, value |-> e.value, sensitive |-> FALSE]
                         ELSE [name |-> e.name, value |-> line.value, sensitive |-> line.sensitive]

\* DecodeAvailableFieldSection: the Required Insert Count is decoded again, against the table of now.
QpDecodeAvailableFieldSection(t, section) ==
    LET counts   == QpDecodeRequiredInsertCount(section.encoded, t.count)
        required == CHOOSE r \in counts : TRUE
        valid    == /\ counts # {}
                    /\ section.sign => required # 0 /\ section.delta < required
                    /\ required = 0 => section.delta = 0
        base     == IF section.sign THEN required - section.delta - 1 ELSE required + section.delta
        fields   == [i \in DOMAIN section.lines |-> QpDecodeLine(t, section.lines[i], base, required)]
    IN  IF ~valid THEN [ok |-> FALSE]
        ELSE [ok |-> \A i \in DOMAIN fields : fields[i] # QpRefused, required |-> required, fields |-> fields]

\* A section the table covers: the fields, the acknowledgement and the count it reports.
QpDeliver(stream, section) ==
    LET result == QpDecodeAvailableFieldSection(qpDecoder.table, section)
    IN  IF ~result.ok
        THEN /\ qpFailed' = "decompression"
             /\ UNCHANGED <<qpDecoder, qpDown, qpGot>>
        ELSE /\ qpGot' = [qpGot EXCEPT ![stream] = Append(@, result.fields)]
             /\ qpDown' = IF result.required = 0 THEN qpDown
                          ELSE Append(qpDown, [op |-> "ack", stream |-> stream])
             /\ qpDecoder' = [qpDecoder EXCEPT !.reported = Max({@, result.required}),
                                               !.blocked = [@ EXCEPT ![stream] = <<>>]]
             /\ UNCHANGED qpFailed

QpIsBlocked(stream) == qpDecoder.blocked[stream] # <<>>
QpResumable(stream) == QpIsBlocked(stream) /\ qpDecoder.blocked[stream][2] <= qpDecoder.table.count
\* ResumeBlockedStreams has visited every stream the last instructions reached.
QpResumed == \A s \in QpStreams : ~QpResumable(s)
QpBlockedCount == Cardinality({s \in QpStreams : QpIsBlocked(s)})

QpDecodeFieldSection(stream) ==
    LET section == Head(qpWire[stream])
        counts  == QpDecodeRequiredInsertCount(section.encoded, qpDecoder.table.count)
        waits   == \E r \in counts : r > qpDecoder.table.count
    IN  /\ QpAlive /\ QpResumed
        /\ qpWire[stream] # <<>>
        /\ stream \notin qpDecoder.dead
        /\ ~QpIsBlocked(stream)
        /\ qpWire' = [qpWire EXCEPT ![stream] = Tail(@)]
        /\ IF ~waits THEN QpDeliver(stream, section)
           ELSE /\ IF QpBlockedCount < QpBlockedStreams
                   THEN /\ qpDecoder' = [qpDecoder EXCEPT !.blocked[stream] = <<section, CHOOSE r \in counts : TRUE>>]
                        /\ UNCHANGED qpFailed
                   ELSE /\ qpFailed' = "too many blocked streams"
                        /\ UNCHANGED qpDecoder
                /\ UNCHANGED <<qpDown, qpGot>>
        /\ UNCHANGED <<qpEncoder, qpUp, qpAsked, qpGiven>>

\* ResumeBlockedFieldSection.
QpResumeBlockedFieldSection(stream) ==
    /\ QpAlive
    /\ QpResumable(stream)
    /\ QpDeliver(stream, qpDecoder.blocked[stream][1])
    /\ UNCHANGED <<qpEncoder, qpUp, qpWire, qpAsked, qpGiven>>

\* ProcessInstructionBytes on the peer's encoder stream: a read brings n instructions, the
\* last of them perhaps only in part.  ResumeBlockedStreams follows before anything else runs.
QpReceiveEncoderInstructions ==
    /\ QpAlive /\ QpResumed
    /\ \E n \in 1 .. Len(qpUp), partial \in IF QpFragments THEN BOOLEAN ELSE {FALSE} :
          LET whole == IF partial THEN n - 1 ELSE n
              step(t, in) == IF t = QpRefused THEN t ELSE QpProcessEncoderInstruction(t, in)
              table == FoldLeft(step, qpDecoder.table, SubSeq(qpUp, 1, whole))
          IN  IF table = QpRefused
              THEN qpFailed' = "encoder stream" /\ UNCHANGED <<qpDecoder, qpUp>>
              ELSE /\ qpDecoder' = [qpDecoder EXCEPT !.table = table]
                   /\ qpUp' = SubSeq(qpUp, whole + 1, Len(qpUp))
                   /\ qpFailed' = IF partial THEN "more processing required" ELSE qpFailed
    /\ UNCHANGED <<qpEncoder, qpDown, qpWire, qpAsked, qpGiven, qpGot>>

\* HandleStreamReset: CancelBlockedSection says something only for a blocked stream.
QpStreamReset(stream) ==
    /\ QpAlive /\ QpResumed
    /\ stream \notin qpDecoder.dead
    /\ qpGiven[stream] # <<>>
    /\ qpDecoder' = [qpDecoder EXCEPT !.dead = @ \cup {stream}, !.blocked = [@ EXCEPT ![stream] = <<>>]]
    /\ qpWire' = [qpWire EXCEPT ![stream] = <<>>]
    /\ qpDown' = IF QpIsBlocked(stream) THEN Append(qpDown, [op |-> "cancel", stream |-> stream]) ELSE qpDown
    /\ UNCHANGED <<qpEncoder, qpUp, qpFailed, qpAsked, qpGiven, qpGot>>

\* The decoder's user reports what the table received and no section acknowledged.
QpWriteInsertCountIncrement ==
    /\ QpAlive /\ QpResumed
    /\ Len(qpDown) < QpMaxFlight
    /\ \E n \in 1 .. (qpDecoder.table.count - qpDecoder.reported) :
          /\ qpDown' = Append(qpDown, [op |-> "increment", n |-> n])
          /\ qpDecoder' = [qpDecoder EXCEPT !.reported = @ + n]
    /\ UNCHANGED <<qpEncoder, qpUp, qpWire, qpFailed, qpAsked, qpGiven, qpGot>>

----------------------------------------
QpInit ==
    /\ \E kind \in QpEncoders : qpEncoder = [kind |-> kind, table |-> QpEmptyTable, known |-> 0, outstanding |-> <<>>, pending |-> QpNoCapacity]
    /\ qpDecoder = [table |-> QpEmptyTable, reported |-> 0, blocked |-> [s \in QpStreams |-> <<>>], dead |-> {}]
    /\ qpUp = <<>> /\ qpDown = <<>>
    /\ qpWire = [s \in QpStreams |-> <<>>]
    /\ qpFailed = "none"
    /\ qpAsked = <<>>
    /\ qpGiven = [s \in QpStreams |-> <<>>]
    /\ qpGot = [s \in QpStreams |-> <<>>]

QpNext ==
    \/ \E c \in QpCapacities : QpSetCapacity(c)
    \/ QpDrainPendingCapacity
    \/ \E p \in QpPairs : QpInsertWithLiteralName(p)
    \/ \E p \in QpPairs : QpInsertWithStaticName(p)
    \/ \E i \in DOMAIN qpEncoder.table.entries :
          \/ \E p \in QpPairs : QpInsertWithNameReference(i, p[2])
          \/ QpDuplicate(i)
    \/ \E s \in QpStreams, fields \in QpSections : QpEncodeFieldSection(s, fields)
    \/ QpReceiveDecoderInstruction
    \/ QpReceiveEncoderInstructions
    \/ \E s \in QpStreams : QpDecodeFieldSection(s) \/ QpResumeBlockedFieldSection(s) \/ QpStreamReset(s)
    \/ QpWriteInsertCountIncrement

QpSpec == QpInit /\ [][QpNext]_qpVars

----------------------------------------
QpAsSent(fields) ==
    [i \in DOMAIN fields |-> [fields[i] EXCEPT !.sensitive = @ \/ fields[i].name \in QpSensitive]]

\* However the four kinds of stream interleave, the decoder returns every
\* stream's sections as they were given, in order, with the sensitive mark
\* kept; neither end refuses what the other sends (the encoder never makes
\* more streams wait than the decoder allows, and never evicts an entry a
\* section on its way refers to); and an entry, at both ends, is what the
\* encoder's user inserted under its index.  Two defects of the code bound
\* this: an entry whose name moved under its insert is another at a table, and
\* a section more than the capacity ahead of the decoder is not understood.
QpackSectionsSurvive ==
    LET moved == {a \in 0 .. Len(qpAsked) - 1 : qpAsked[a + 1].moved}
        given == [s \in QpStreams |-> {k \in DOMAIN qpGiven[s] : ~qpGiven[s][k].ahead}]
    IN  /\ qpFailed # "none" => \E s \in QpStreams : given[s] # DOMAIN qpGiven[s]
        /\ \A s \in QpStreams :
              /\ Len(qpGot[s]) <= Len(qpGiven[s])
              /\ \A k \in given[s] \cap DOMAIN qpGot[s] :
                    \/ qpGiven[s][k].cites \cap moved # {}
                    \/ qpGot[s][k] = QpAsSent(qpGiven[s][k].fields)
        /\ \A t \in {qpEncoder.table, qpDecoder.table} : \A i \in DOMAIN t.entries :
              LET e == t.entries[i]
                  asked == qpAsked[e.abs + 1]
              IN  e.value = asked.value /\ (e.abs \notin moved => e.name = asked.name)

\* An entry keeps the name it was inserted with, also when the insert evicts
\* (QpackDecoder.cpp:296-320, QpackEncoder.cpp:316-349: the name is a view of
\* the table Insert compacts).  The code does not keep this.
NamesSurviveEviction == \A k \in DOMAIN qpAsked : ~qpAsked[k].moved

\* No section is sent whose Required Insert Count the decoder takes for another
\* (QpackDynamicTable.cpp:403-415 evicts what was never acknowledged).  The code
\* does not keep this.
SectionsStayInReach == \A s \in QpStreams : \A k \in DOMAIN qpGiven[s] : ~qpGiven[s][k].ahead

====
