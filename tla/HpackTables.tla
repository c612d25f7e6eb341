---------------------------- MODULE HpackTables ----------------------------
\* HPACK in one direction of an HTTP/2 connection: HpackEncoder on one
\* end, HpackDecoder on the other (http2/Hpack.cpp), each with its dynamic
\* table, and the way Http2Connection drives them: header blocks in the
\* order they are sent, and SETTINGS_HEADER_TABLE_SIZE coming back, which
\* the encoder applies between two blocks.
\*
\* The blocks share one connection, so whatever one block does to a table
\* is seen by every later one.  A field is a pair <<name, value>>; an
\* entry has the size HpSize gives its value.
EXTENDS Naturals, Sequences, FiniteSets, FiniteSetsExt, SequencesExt

CONSTANTS
    HpStatic,           \* HpackStaticTable: a sequence of pairs
    HpSensitive,        \* names IsSensitiveHeaderName knows
    HpBlocks,           \* header lists sent: sequences of pairs
    HpLongValues,       \* values too long for any table
    HpTableSizes,       \* SETTINGS_HEADER_TABLE_SIZE values
    HpInitialSize,      \* Http2Settings::HeaderTableSize
    HpFaults,           \* "encode": a block that does not fit its buffer; "skip": a block dropped undecoded
    HpMaxBlocks,        \* bounds: blocks, settings
    HpMaxSettings

ASSUME HpAssumption ==
    /\ {HpInitialSize, HpMaxBlocks, HpMaxSettings} \subseteq Nat
    /\ HpTableSizes \subseteq Nat
    /\ HpFaults \subseteq {"encode", "skip"}

VARIABLES
    hpEncoder,    \* [table, pending, update]
    hpDecoder,    \* [table, limit]
    hpWire,       \* blocks and SETTINGS acknowledgements, in order
    hpSettings,   \* table sizes on their way back
    hpFailed,
    hpSent,       \* blocks begun, settings sent; lost: a block has changed one table only
    hpGiven,      \* history: header lists put on the wire
    hpGot         \* history: header lists decoded

hpVars == <<hpEncoder, hpDecoder, hpWire, hpSettings, hpFailed, hpSent, hpGiven, hpGot>>

HpRefused == [refused |-> TRUE]
HpSize(field) == IF field[2] \in HpLongValues THEN Max(HpTableSizes \cup {HpInitialSize}) + 1 ELSE 1

----------------------------------------
(* HpackDynamicTable: the entries newest first.                            *)

HpEmptyTable(maximum) == [entries |-> <<>>, maximum |-> maximum]

HpCurrentSize(entries) == FoldLeft(LAMBDA n, e : n + HpSize(e), 0, entries)

\* Evict: the oldest go until what stays fits.
HpEvict(entries, size) ==
    LET fits == {n \in 0 .. Len(entries) : HpCurrentSize(SubSeq(entries, 1, n)) <= size}
    IN  SubSeq(entries, 1, Max(fits))

HpUpdateMaxSize(t, maximum) == [entries |-> HpEvict(t.entries, maximum), maximum |-> maximum]

HpInsert(t, field) ==
    [t EXCEPT !.entries = IF HpSize(field) > t.maximum THEN <<>>
                          ELSE <<field>> \o HpEvict(@, t.maximum - HpSize(field))]

\* An index on the wire: the static entries, then the dynamic ones.
HpLookup(t, index) ==
    IF index = 0 \/ index > Len(HpStatic) + Len(t.entries) THEN HpRefused
    ELSE (HpStatic \o t.entries)[index]

----------------------------------------
(* HpackEncoder.                                                           *)

HpFindMatch(t, field) ==
    LET all   == HpStatic \o t.entries
        exact == {i \in DOMAIN all : all[i] = field}
        named == {i \in DOMAIN all : all[i][1] = field[1]}
    IN  [index    |-> IF exact # {} THEN Min(exact) ELSE IF named # {} THEN Min(named) ELSE 0,
         nameOnly |-> exact = {}]

HpEncodeHeader(acc, field) ==
    LET match == HpFindMatch(acc.table, field)
        never == field[1] \in HpSensitive
    IN  IF match.index > 0 /\ ~match.nameOnly /\ ~never
        THEN [acc EXCEPT !.lines = Append(@, [kind |-> "indexed", index |-> match.index])]
        ELSE [lines |-> Append(acc.lines, [kind |-> IF never THEN "never" ELSE "incremental",
                                           index |-> match.index, name |-> field[1], value |-> field[2]]),
              table |-> IF never THEN acc.table ELSE HpInsert(acc.table, field)]

\* A pending size update goes before the first header.
HpSizeUpdates(enc) == IF enc.update THEN <<[kind |-> "size", size |-> enc.pending]>> ELSE <<>>

HpEncode(enc, fields) ==
    FoldLeft(HpEncodeHeader, [lines |-> HpSizeUpdates(enc), table |-> enc.table], fields)

\* The encoder after so many of the headers: what it keeps when the buffer then runs out.
HpEncoderAfter(enc, fields, n) ==
    [enc EXCEPT !.table = HpEncode(enc, SubSeq(fields, 1, n)).table, !.update = FALSE]

\* Mutant: the evictions of a smaller table are not announced.
HpForgetUpdate(enc, maximum) ==
    IF enc.table.maximum = maximum THEN enc
    ELSE [enc EXCEPT !.table = HpUpdateMaxSize(@, maximum), !.pending = maximum]

HpEncoderUpdateMaxTableSize(enc, maximum) ==
    IF enc.table.maximum = maximum THEN enc
    ELSE [table |-> HpUpdateMaxSize(enc.table, maximum), pending |-> maximum, update |-> TRUE]

----------------------------------------
(* HpackDecoder::Decode, one representation at a time.                     *)

HpDecodeIndexed(acc, line) ==
    LET field == HpLookup(acc.table, line.index)
    IN  IF field = HpRefused THEN [acc EXCEPT !.ok = FALSE]
        ELSE [acc EXCEPT !.fields = Append(@, field), !.sizes = FALSE]

HpName(acc, line) == IF line.index = 0 THEN line.name ELSE HpLookup(acc.table, line.index)[1]
HpNameKnown(acc, line) == line.index = 0 \/ HpLookup(acc.table, line.index) # HpRefused

HpDecodeIncremental(acc, line) ==
    IF ~HpNameKnown(acc, line) THEN [acc EXCEPT !.ok = FALSE]
    ELSE LET field == <<HpName(acc, line), line.value>>
         IN  [acc EXCEPT !.fields = Append(@, field), !.table = HpInsert(@, field), !.sizes = FALSE]

HpDecodeLiteral(acc, line) ==
    IF ~HpNameKnown(acc, line) THEN [acc EXCEPT !.ok = FALSE]
    ELSE [acc EXCEPT !.fields = Append(@, <<HpName(acc, line), line.value>>), !.sizes = FALSE]

HpDecodeSizeUpdate(acc, line) ==
    IF ~acc.sizes \/ line.size > acc.limit THEN [acc EXCEPT !.ok = FALSE]
    ELSE [acc EXCEPT !.table = HpUpdateMaxSize(@, line.size)]

HpDecodeLine(acc, line) ==
    IF ~acc.ok THEN acc
    ELSE CASE line.kind = "indexed"     -> HpDecodeIndexed(acc, line)
           [] line.kind = "incremental" -> HpDecodeIncremental(acc, line)
           [] line.kind = "never"       -> HpDecodeLiteral(acc, line)
           [] line.kind = "size"        -> HpDecodeSizeUpdate(acc, line)

HpDecode(dec, lines) ==
    FoldLeft(HpDecodeLine,
             [ok |-> TRUE, fields |-> <<>>, table |-> dec.table, limit |-> dec.limit, sizes |-> TRUE], lines)

----------------------------------------
(* The connection.                                                         *)

HpAlive == hpFailed = "none"

\* How many headers fit the header block buffer.
HpFitting(fields) == IF "encode" \in HpFaults THEN 0 .. Len(fields) ELSE {Len(fields)}

\* SendRequestFrames, SendRequestTrailers: the block is encoded and sent under the state lock.
\* When the buffer runs out inside the list the request fails and the connection goes on, with
\* the encoder as the headers before that point, and the size update, have left it.
HpSendRequestFrames(fields, fitting) ==
    /\ HpAlive
    /\ hpSent.blocks < HpMaxBlocks
    /\ hpEncoder' = HpEncoderAfter(hpEncoder, fields, fitting)
    /\ hpSent' = [hpSent EXCEPT !.blocks = @ + 1,
                                !.lost = @ \/ (fitting < Len(fields) /\ hpEncoder' # hpEncoder)]
    /\ IF fitting = Len(fields)
       THEN /\ hpWire' = Append(hpWire, [kind |-> "block", lines |-> HpEncode(hpEncoder, fields).lines])
            /\ hpGiven' = Append(hpGiven, fields)
       ELSE UNCHANGED <<hpWire, hpGiven>>
    /\ UNCHANGED <<hpDecoder, hpSettings, hpFailed, hpGot>>

\* A SETTINGS frame reaches the encoder's end, which applies and acknowledges it.
HpReceiveSettings ==
    /\ HpAlive
    /\ hpSettings # <<>>
    /\ hpEncoder' = HpEncoderUpdateMaxTableSize(hpEncoder, Head(hpSettings))
    /\ hpWire' = Append(hpWire, [kind |-> "ack", size |-> Head(hpSettings)])
    /\ hpSettings' = Tail(hpSettings)
    /\ UNCHANGED <<hpDecoder, hpFailed, hpSent, hpGiven, hpGot>>

\* The decoder's end announces another table size, and holds the encoder to it once acknowledged.
HpSendSettings(size) ==
    /\ HpAlive
    /\ hpSent.settings < HpMaxSettings
    /\ hpSettings' = Append(hpSettings, size)
    /\ hpSent' = [hpSent EXCEPT !.settings = @ + 1]
    /\ UNCHANGED <<hpEncoder, hpDecoder, hpWire, hpFailed, hpGiven, hpGot>>

HpReceiveAck ==
    /\ HpAlive
    /\ hpWire # <<>> /\ Head(hpWire).kind = "ack"
    /\ hpDecoder' = [hpDecoder EXCEPT !.limit = Head(hpWire).size]
    /\ hpWire' = Tail(hpWire)
    /\ UNCHANGED <<hpEncoder, hpSettings, hpFailed, hpSent, hpGiven, hpGot>>

\* A complete header block; a refusal is GOAWAY with COMPRESSION_ERROR.  The block of a stream
\* that is no longer active, because its request was reset or given up, is dropped by
\* DispatchFrame before it is decoded.
HpReceiveHeaders(decoded) ==
    /\ HpAlive
    /\ hpWire # <<>> /\ Head(hpWire).kind = "block"
    /\ LET result == HpDecode(hpDecoder, Head(hpWire).lines)
       IN  /\ hpDecoder' = IF decoded /\ result.ok THEN [hpDecoder EXCEPT !.table = result.table] ELSE hpDecoder
           /\ hpFailed' = IF decoded /\ ~result.ok THEN "compression" ELSE hpFailed
           /\ hpGot' = Append(hpGot, IF decoded THEN result.fields ELSE hpGiven[Len(hpGot) + 1])
           /\ hpSent' = [hpSent EXCEPT !.lost = @ \/ (~decoded /\ result.table # hpDecoder.table)]
    /\ hpWire' = Tail(hpWire)
    /\ UNCHANGED <<hpEncoder, hpSettings, hpGiven>>

----------------------------------------
HpInit ==
    /\ hpEncoder = [table |-> HpEmptyTable(HpInitialSize), pending |-> HpInitialSize, update |-> FALSE]
    /\ hpDecoder = [table |-> HpEmptyTable(HpInitialSize), limit |-> HpInitialSize]
    /\ hpWire = <<>> /\ hpSettings = <<>>
    /\ hpFailed = "none"
    /\ hpSent = [blocks |-> 0, settings |-> 0, lost |-> FALSE]
    /\ hpGiven = <<>> /\ hpGot = <<>>

HpNext ==
    \/ \E fields \in HpBlocks : \E n \in HpFitting(fields) : HpSendRequestFrames(fields, n)
    \/ HpReceiveSettings
    \/ \E size \in HpTableSizes : HpSendSettings(size)
    \/ HpReceiveAck
    \/ \E decoded \in {TRUE} \cup (IF "skip" \in HpFaults THEN {FALSE} ELSE {}) : HpReceiveHeaders(decoded)

HpSpec == HpInit /\ [][HpNext]_hpVars

----------------------------------------
\* The decoder has returned every header list as it was given and refused none.
HpTablesAgree == hpFailed = "none" /\ IsPrefix(hpGot, hpGiven)

\* Whatever blocks share the connection and however table size changes
\* fall between them, the decoder returns every header list as it was
\* given and refuses none, and a sensitive header is in neither table.
\* A block that was dropped undecoded, or whose encoding ran out of room,
\* does no harm as long as it changed neither table; one that did has
\* parted them, and nothing is said of what follows.
HpackBlocksSurvive ==
    /\ hpSent.lost \/ HpTablesAgree
    /\ \A t \in {hpEncoder.table, hpDecoder.table} : \A i \in DOMAIN t.entries :
          t.entries[i][1] \notin HpSensitive

====
