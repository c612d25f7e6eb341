--------------------------- MODULE ContentDecoding ---------------------------
\* What a client says it accepts, and what it makes of the coded body it
\* gets: the Accept-Encoding a request carries (http1/HttpContentEncoding
\* .cpp, session/HttpAcceptEncodingHelpers.hpp), the policy read back from
\* it, the chain of content codings undone between two buffers, and the
\* container formats of codec/ContentCoding.cpp.  The deflate runtime is
\* probed once for all threads of the driver.
\*
\* A body is a sequence of items: plain bytes [b |-> n] with n below
\* CdBytes, or the parts of a coded container.  The compressors Windows,
\* Brotli and Zstandard bring are one opaque item each; LZW is modelled
\* bit by bit with CdBytes in the place of 256.
EXTENDS Integers, Sequences, FiniteSets, SequencesExt, Folds

CONSTANTS
    CdBytes,          \* values of a byte: LZW's first code that is no literal
    CdGroup,          \* codes of one width are padded to a multiple of this: 8 in the code
    CdRequests,       \* what applications ask for: [own |-> lines, prefs |-> preferences]
    CdOffers,         \* the codings a negotiating server can produce, best first
    CdBodies,         \* the bodies of negotiated answers
    CdExchanges,      \* answers of a server that does not look: [chain, body, style]
    CdStyles,         \* how containers are written: [gzip, zlib, max, clears, record, padding]
    CdTransports,     \* subset of {"h1", "h3"}
    CdMaterials,      \* codings the caller supplied a dictionary or a key for
    CdInitialCapacity, CdScratch, CdMaxResponse, CdMaxRatio,
    CdProbers,        \* other threads that build a request meanwhile
    CdMaxFailures     \* allocations that fail while the runtime is probed

ASSUME CdConstants ==
    /\ CdBytes \in Nat \ {0, 1} /\ CdGroup \in Nat \ {0}
    /\ {CdInitialCapacity, CdScratch, CdMaxResponse, CdMaxRatio} \subseteq Nat \ {0}
    /\ CdMaxFailures \in Nat

VARIABLES
    cdRuntime,   \* g_deflateRuntimeProbeState: "unknown", "probing", "yes", "no"
    cdWorks,     \* whether the system's deflate really works
    cdFailures,  \* allocations that have failed
    cdThread,    \* where each thread is in DeflateRuntimeAvailable
    cdCall       \* the one exchange that is followed

cdVars == <<cdRuntime, cdWorks, cdFailures, cdThread, cdCall>>

CdMe == "me"
CdThreads == {CdMe} \cup CdProbers

----------------------------------------
(* Accept-Encoding *)

CdCodings == {"identity", "gzip", "deflate", "br", "compress", "zstd", "dcb", "dcz", "aes128gcm",
              "exi", "pack200-gzip"}

\* A token's coding, the historic x- names included; Extension for one the library does not know.
CdAcceptCodingFromToken(token) ==
    CASE token = "*" -> "any"
      [] token = "x-gzip" -> "gzip"
      [] token = "x-compress" -> "compress"
      [] token \in CdCodings -> token
      [] OTHER -> "extension"

CdAcceptCodingText(coding) == IF coding = "any" THEN "*" ELSE coding

\* Thousandths as decimal digits, the point left out: none for 1, trailing zeros dropped.
CdAppendQValue(q) ==
    CASE q = 1000 -> <<>>
      [] q = 0 -> <<0>>
      [] q % 100 = 0 -> <<0, q \div 100>>
      [] q % 10 = 0 -> <<0, q \div 100, (q \div 10) % 10>>
      [] OTHER -> <<0, q \div 100, (q \div 10) % 10, q % 10>>

CdBadQValue == 1001

CdParseQValue(digits) ==
    CASE digits = <<>> -> 1000
      [] Len(digits) > 4 \/ digits[1] > 1 -> CdBadQValue
      [] digits[1] = 1 -> IF \E i \in 2..Len(digits) : digits[i] # 0 THEN CdBadQValue ELSE 1000
      [] OTHER -> LET at(i) == IF i <= Len(digits) THEN digits[i] ELSE 0
                  IN  at(2) * 100 + at(3) * 10 + at(4)

CdEntryMatchesCoding(entry, coding, token) ==
    /\ ~entry.wildcard
    /\ IF entry.extension \/ coding = "extension"
       THEN entry.extension /\ coding = "extension" /\ entry.token = token
       ELSE entry.coding = coding

CdNoRules == [entries |-> <<>>, empty |-> FALSE, ok |-> TRUE]

\* One entry per coding: a second one refuses the header.
CdAddAcceptEncodingEntry(rules, token, coding, q) ==
    IF \/ rules.empty
       \/ Len(rules.entries) >= 16
       \/ \E i \in DOMAIN rules.entries :
             IF coding = "any" THEN rules.entries[i].wildcard
             ELSE CdEntryMatchesCoding(rules.entries[i], coding, token)
    THEN [rules EXCEPT !.ok = FALSE]
    ELSE [rules EXCEPT !.entries = Append(@, [token |-> token, coding |-> coding, q |-> q,
                                               wildcard |-> coding = "any",
                                               extension |-> coding = "extension"])]

CdIsValidToken(token) == token # ""

CdParseAcceptEncodingElement(rules, element) ==
    LET q == CdParseQValue(element.q)
    IN  IF ~rules.ok THEN rules
        ELSE IF ~CdIsValidToken(element.token) \/ q = CdBadQValue THEN [rules EXCEPT !.ok = FALSE]
        ELSE CdAddAcceptEncodingEntry(rules, element.token, CdAcceptCodingFromToken(element.token), q)

\* One header line; an empty one is only allowed alone.
CdParseAcceptEncoding(rules, line) ==
    IF ~rules.ok THEN rules
    ELSE IF line = <<>>
         THEN [rules EXCEPT !.ok = rules.entries = <<>> /\ ~rules.empty, !.empty = TRUE]
    ELSE FoldLeft(CdParseAcceptEncodingElement, [rules EXCEPT !.ok = ~rules.empty], line)

\* The request's own header lines make the policy its response is held to.
CdBuildAcceptEncodingPolicyFromRequestHeaders(lines) ==
    IF lines = <<>> THEN [CdNoRules EXCEPT !.ok = FALSE]
    ELSE FoldLeft(CdParseAcceptEncoding, CdNoRules, lines)

CdValidateAcceptEncodingPreferences(prefs) ==
    /\ Len(prefs) <= 8
    /\ \A i \in DOMAIN prefs : prefs[i].coding \in CdCodings \cup {"any"} /\ prefs[i].q <= 1000
    /\ \A i, j \in DOMAIN prefs : prefs[i].coding = prefs[j].coding => i = j

CdCodingRequiresDeflateRuntime(coding) == coding \in {"gzip", "deflate"}

CdDefaultAcceptEncoding(available) ==
    [i \in DOMAIN (IF available THEN <<"gzip", "deflate", "br", "zstd", "identity">> ELSE <<"br", "identity">>) |->
        [token |-> (IF available THEN <<"gzip", "deflate", "br", "zstd", "identity">> ELSE <<"br", "identity">>)[i],
         q |-> <<>>]]

\* The line generated from preferences; "refused" names a coding the runtime cannot undo.
CdBuildAcceptEncodingHeader(prefs, available) ==
    IF prefs = <<>> THEN [ok |-> TRUE, line |-> CdDefaultAcceptEncoding(available)]
    ELSE [ok |-> \A i \in DOMAIN prefs :
                    prefs[i].q # 0 /\ CdCodingRequiresDeflateRuntime(prefs[i].coding) => available,
          line |-> [i \in DOMAIN prefs |-> [token |-> CdAcceptCodingText(prefs[i].coding),
                                             q |-> CdAppendQValue(prefs[i].q)]]]

\* A coding's own entry, else the wildcard; identity needs neither unless *;q=0 takes it away.
CdRulesQValueForCoding(rules, token, coding) ==
    LET exact == {i \in DOMAIN rules.entries : CdEntryMatchesCoding(rules.entries[i], coding, token)}
        wild == {i \in DOMAIN rules.entries : rules.entries[i].wildcard}
        q(S) == rules.entries[CHOOSE i \in S : \A j \in S : i <= j].q
    IN  CASE rules.empty -> IF coding = "identity" THEN 1000 ELSE 0
          [] exact # {} -> q(exact)
          [] coding = "identity" -> IF wild # {} /\ q(wild) = 0 THEN 0 ELSE 1000
          [] OTHER -> IF wild # {} THEN q(wild) ELSE 0

CdIsContentCodingAcceptable(rules, token) ==
    CdRulesQValueForCoding(rules, token, CdAcceptCodingFromToken(token))

\* The first of the best rated offers, "" when none is acceptable.
CdNegotiateContentCoding(rules, offers) ==
    LET rate(i) == CdIsContentCodingAcceptable(rules, offers[i])
        best == {i \in DOMAIN offers : rate(i) > 0 /\ \A j \in DOMAIN offers : rate(j) <= rate(i)}
    IN  IF best = {} THEN "" ELSE offers[CHOOSE i \in best : \A j \in best : i <= j]

\* HTTP/3 hands no policy down.
CdPolicyForbidsCoding(policy, coding) ==
    policy # {} /\ \E rules \in policy : CdRulesQValueForCoding(rules, CdAcceptCodingText(coding), coding) = 0

----------------------------------------
(* LZW, the compress coding *)

CdPow2(n) == 2 ^ n
CdClear == CdBytes
CdInitialBits == CHOOSE n \in 1..8 : CdPow2(n) > CdBytes /\ CdPow2(n - 1) <= CdBytes

\* A string's bytes by following its prefixes; <<>> for a code outside the table.
RECURSIVE CdExpandCompressCode(_, _)
CdExpandCompressCode(table, code) ==
    IF code < CdBytes THEN <<code>>
    ELSE IF code \notin DOMAIN table THEN <<>>
    ELSE Append(CdExpandCompressCode(table, table[code].prefix), table[code].suffix)

CdReadCompressCode(bits, offset, width) ==
    FoldLeft(LAMBDA code, i : code + bits[offset + i] * CdPow2(i - 1), 0, [i \in 1..width |-> i])

CdHasCompleteCompressCode(bits, offset, width) == offset + width <= Len(bits)

\* Mutant: the padding behind a group of codes is read as codes.
CdNoAlign(offset, width) == offset

\* Codes of one width fill whole groups.
CdAlignCompressBitOffset(offset, width) ==
    LET group == width * CdGroup IN ((offset - 1 + group) \div group) * group

CdMaxCode(width) == CdPow2(width) - 1
CdNoCode == -1

RECURSIVE CdCompressLoop(_, _, _, _)

\* A known code, or the one about to be added; the string before it grows by the text's first byte.
CdCompressString(bits, max, block, s, code, text) ==
    LET known == code < s.next
        adds == s.old # CdNoCode /\ s.next < CdPow2(max)
    IN  IF text = <<>> THEN [s EXCEPT !.ok = FALSE]
        ELSE CdCompressLoop(bits, max, block,
                 [s EXCEPT !.old = code,
                           !.out = @ \o (IF known THEN text ELSE Append(text, text[1])),
                           !.next = IF adds THEN @ + 1 ELSE @,
                           !.table = IF adds
                                     THEN [c \in DOMAIN s.table \cup {s.next} |->
                                             IF c = s.next THEN [prefix |-> s.old, suffix |-> text[1]]
                                             ELSE s.table[c]]
                                     ELSE @])

\* A code was read up to s.offset: clear the table, or find the code's string.
CdCompressCode(bits, max, block, s, code) ==
    CASE block /\ code = CdClear ->
            CdCompressLoop(bits, max, block,
                [s EXCEPT !.width = CdInitialBits, !.next = CdClear + 1, !.old = CdNoCode, !.table = << >>])
      [] code >= s.next /\ (code # s.next \/ s.old = CdNoCode) -> [s EXCEPT !.ok = FALSE]
      [] OTHER -> CdCompressString(bits, max, block, s, code,
                      CdExpandCompressCode(s.table, IF code < s.next THEN code ELSE s.old))

\* Codes widen once the next one needs it.
CdCompressLoop(bits, max, block, s) ==
    LET grows == s.next > CdMaxCode(s.width) /\ s.width < max
        width == IF grows THEN s.width + 1 ELSE s.width
        offset == IF grows THEN CdAlignCompressBitOffset(s.offset, s.width) ELSE s.offset
    IN  IF CdHasCompleteCompressCode(bits, s.offset, s.width) /\ CdHasCompleteCompressCode(bits, offset, width)
        THEN CdCompressCode(bits, max, block, [s EXCEPT !.offset = offset + width, !.width = width],
                            CdReadCompressCode(bits, offset, width))
        ELSE s

\* The stream's table starts with the literals; what is still free depends on block mode.
CdDecodeCompressWithTables(bits, max, block) ==
    CdCompressLoop(bits, max, block,
        [offset |-> 0, width |-> CdInitialBits, next |-> IF block THEN CdClear + 1 ELSE CdClear,
         old |-> CdNoCode, table |-> << >>, out |-> <<>>, ok |-> TRUE])

----------------------------------------
(* The containers.  A result is [st, out]: "success", "invalid", "small", "unsupported". *)

CdGood(out) == [st |-> "success", out |-> out]
CdFail(st) == [st |-> st, out |-> <<>>]
CdHas(item, part) == part \in DOMAIN item

\* Enough room, or the caller is told to bring more.
CdFit(out, capacity) == IF Len(out) > capacity THEN CdFail("small") ELSE CdGood(out)

\* A checksum tells any two bodies apart.
CdComputeCrc32(body) == [crc |-> body]
CdComputeAdler32(body) == [adler |-> body]

\* The system's decompressor, behind the probe.
CdDecodeRawDeflateUnchecked(items, capacity) ==
    IF Len(items) # 1 \/ ~CdHas(items[1], "raw") THEN CdFail("invalid")
    ELSE CdFit(items[1].raw, capacity)

CdDecodeRawDeflate(items, capacity, available) ==
    IF available THEN CdDecodeRawDeflateUnchecked(items, capacity) ELSE CdFail("unsupported")

CdLooksLikeZlibHeader(items) == items # <<>> /\ CdHas(items[1], "zlib")

CdDecodeDeflate(items, capacity, available) ==
    IF ~CdLooksLikeZlibHeader(items) THEN CdDecodeRawDeflate(items, capacity, available)
    ELSE IF Len(items) < 3 THEN CdFail("invalid")
    ELSE LET checked(raw) ==
                 IF raw.st = "success" /\ items[Len(items)] # CdComputeAdler32(raw.out) THEN CdFail("invalid") ELSE raw
         IN  checked(CdDecodeRawDeflate(SubSeq(items, 2, Len(items) - 1), capacity, available))

\* Behind a gzip header's fixed part: the extra field, the name, the comment, the header's checksum.
CdSkipGzipField(items, cursor, flags, field) ==
    IF cursor = 0 \/ field \notin flags THEN cursor
    ELSE IF cursor > Len(items) \/ ~CdHas(items[cursor], "field") THEN 0
    ELSE IF field = "hcrc" /\ items[cursor].of # SubSeq(items, 1, cursor - 1) THEN 0
    ELSE cursor + 1

CdDecodeGzip(items, capacity, available) ==
    IF Len(items) < 4 \/ ~CdHas(items[1], "gzip") THEN CdFail("invalid")
    ELSE IF "reserved" \in items[1].gzip THEN CdFail("invalid")
    ELSE LET flags == items[1].gzip
             checked(raw) ==
                 IF \/ raw.st # "success"
                    \/ /\ items[Len(items) - 1] = CdComputeCrc32(raw.out)
                       /\ items[Len(items)] = [size |-> Len(raw.out)]
                 THEN raw ELSE CdFail("invalid")
             body(cursor) ==
                 IF cursor = 0 \/ cursor + 2 > Len(items) THEN CdFail("invalid")
                 ELSE checked(CdDecodeRawDeflate(SubSeq(items, cursor, Len(items) - 2), capacity, available))
         IN  body(FoldLeft(LAMBDA at, field : CdSkipGzipField(items, at, flags, field), 2,
                           <<"extra", "name", "comment", "hcrc">>))

CdDecodeBrotli(items, capacity, dictionary) ==
    IF Len(items) # 1 \/ ~CdHas(items[1], "br") THEN CdFail("invalid")
    ELSE IF items[1].dict # dictionary THEN CdFail("invalid")
    ELSE CdFit(items[1].br, capacity)

\* Zstandard's every error is an invalid response, a buffer too small too.
CdDecodeZstd(items, capacity, dictionary) ==
    IF Len(items) # 1 \/ ~CdHas(items[1], "zstd") THEN CdFail("invalid")
    ELSE IF items[1].dict # dictionary \/ Len(items[1].zstd) > capacity THEN CdFail("invalid")
    ELSE CdGood(items[1].zstd)

CdDecodeCompress(items, capacity) ==
    IF items = <<>> \/ ~CdHas(items[1], "lzw") THEN CdFail("invalid")
    ELSE IF items[1].lzw < CdInitialBits THEN CdFail("invalid")
    ELSE LET bits == [i \in 1..Len(items) - 1 |-> items[i + 1].bit]
             after(run) == IF Len(run.out) > capacity THEN CdFail("small")
                           ELSE IF ~run.ok THEN CdFail("invalid")
                           ELSE CdGood([i \in DOMAIN run.out |-> [b |-> run.out[i]]])
         IN  after(CdDecodeCompressWithTables(bits, items[1].lzw, items[1].block))

\* A record's text ends at its delimiter, behind which only zeros may stand: 2 in the last, 1 before.
CdAppendAes128GcmRecordPlaintext(plain, final, out, capacity) ==
    LET marks == {i \in DOMAIN plain : plain[i] # [pad |-> 0]}
        at == CHOOSE i \in marks : \A j \in marks : j <= i
    IN  IF marks = {} THEN CdFail("invalid")
        ELSE IF plain[at] # [pad |-> IF final THEN 2 ELSE 1] THEN CdFail("invalid")
        ELSE CdFit(out \o SubSeq(plain, 1, at - 1), capacity)

CdRecordLength(record) == Len(record.sealed) + 1

\* Record i opens only with its own nonce; where it ends follows from the announced size.
RECURSIVE CdAes128GcmLoop(_, _, _, _, _)
CdAes128GcmLoop(records, size, sequence, out, capacity) ==
    LET remaining == FoldLeft(LAMBDA n, r : n + CdRecordLength(r), 0, records)
        final == remaining <= size
        record == records[1]
        next(step) == IF step.st # "success" THEN step
                      ELSE CdAes128GcmLoop(Tail(records), size, sequence + 1, step.out, capacity)
    IN  CASE records = <<>> -> CdGood(out)
          [] CdRecordLength(record) # (IF final THEN remaining ELSE size) -> CdFail("invalid")
          [] record.seq # sequence -> CdFail("invalid")
          [] OTHER -> next(CdAppendAes128GcmRecordPlaintext(record.sealed, final, out, capacity))

CdDecodeAes128Gcm(items, capacity) ==
    IF Len(items) < 2 \/ ~CdHas(items[1], "record") THEN CdFail("invalid")
    ELSE CdAes128GcmLoop(Tail(items), items[1].record, 0, <<>>, capacity)

CdResolveMaterial(coding) == coding \in CdMaterials

CdDecodeOne(coding, items, capacity, available) ==
    CASE coding = "gzip" -> CdDecodeGzip(items, capacity, available)
      [] coding = "deflate" -> CdDecodeDeflate(items, capacity, available)
      [] coding = "br" -> CdDecodeBrotli(items, capacity, FALSE)
      [] coding = "compress" -> CdDecodeCompress(items, capacity)
      [] coding = "zstd" -> CdDecodeZstd(items, capacity, FALSE)
      [] coding \in {"dcb", "dcz", "aes128gcm"} /\ ~CdResolveMaterial(coding) -> CdFail("unsupported")
      [] coding = "dcb" -> CdDecodeBrotli(items, capacity, TRUE)
      [] coding = "dcz" -> CdDecodeZstd(items, capacity, TRUE)
      [] coding = "aes128gcm" -> CdDecodeAes128Gcm(items, capacity)
      [] OTHER -> CdFail("unsupported")

CdIsDecodedSizeAllowed(encoded, decoded) == decoded <= encoded * CdMaxRatio

\* The two buffers take turns; the one a step reads from is never the one it writes to.
CdSelectDestination(current) == IF current = "decoded" THEN "scratch" ELSE "decoded"

CdDecodeStep(run, coding, capacity, available) ==
    IF run.st # "success" \/ coding = "identity" THEN run
    ELSE LET to == CdSelectDestination(run.at)
             after(result) ==
                 IF result.st # "success" THEN [run EXCEPT !.st = result.st]
                 ELSE IF ~CdIsDecodedSizeAllowed(Len(run.out), Len(result.out)) THEN [run EXCEPT !.st = "invalid"]
                 ELSE [st |-> "success", out |-> result.out, at |-> to]
         IN  after(CdDecodeOne(coding, run.out, capacity[to], available))

\* Last coding first; the result ends in the decoded buffer.
CdDecodeChainReverse(chain, items, capacity, available) ==
    LET copied(run) == IF run.st = "success" /\ run.at = "scratch" /\ Len(run.out) > capacity.decoded
                       THEN [run EXCEPT !.st = "small"] ELSE run
    IN  copied(FoldLeft(LAMBDA r, coding : CdDecodeStep(r, coding, capacity, available),
                        [st |-> "success", out |-> items, at |-> "body"], Reverse(chain)))

\* Content-Encoding's tokens; a ninth or an unknown one is not supported.
CdAppendCodings(tokens) ==
    IF Len(tokens) > 8 \/ \E i \in DOMAIN tokens : CdAcceptCodingFromToken(tokens[i]) \in {"any", "extension"}
    THEN [ok |-> FALSE, chain |-> <<>>]
    ELSE [ok |-> TRUE, chain |-> [i \in DOMAIN tokens |-> CdAcceptCodingFromToken(tokens[i])]]

\* The whole of HttpContentEncoding::Decode.
CdDecodeContent(tokens, items, policy, capacity, available) ==
    LET parsed == CdAppendCodings(tokens)
        held == IF parsed.chain = <<>> THEN <<"identity">> ELSE parsed.chain
    IN  IF ~parsed.ok THEN CdFail("unsupported")
        ELSE IF (parsed.chain # <<>> \/ items # <<>>) /\ \E i \in DOMAIN held : CdPolicyForbidsCoding(policy, held[i])
             THEN CdFail("unsupported")
        ELSE IF parsed.chain = <<>> \/ items = <<>> THEN CdGood(items)
        ELSE CdDecodeChainReverse(parsed.chain, items, capacity, available)

----------------------------------------
(* The server's side: how a conforming peer writes the same formats. *)

CdBits(code, width) == [i \in 1..width |-> (code \div CdPow2(i - 1)) % 2]
CdPadded(bits, width) ==
    LET group == width * CdGroup
        short == (group - (Len(bits) % group)) % group
    IN  bits \o [i \in 1..short |-> 0]

CdEmpty == << >>
CdPeerStart(max) == [dict |-> CdEmpty, next |-> CdClear + 1, width |-> CdInitialBits, max |-> max,
                     part |-> <<>>, done |-> <<>>]

\* A code at the present width; when the next may need more, the group is filled and codes widen.
CdPeerEmit(e, code) ==
    LET part == e.part \o CdBits(code, e.width)
    IN  IF e.next > CdMaxCode(e.width) /\ e.width < e.max
        THEN [e EXCEPT !.done = @ \o CdPadded(part, e.width), !.part = <<>>, !.width = @ + 1]
        ELSE [e EXCEPT !.part = part]

\* The clear code ends its group as a change of width does.
CdPeerClear(e) ==
    [CdPeerStart(e.max) EXCEPT !.done = e.done \o CdPadded(e.part \o CdBits(CdClear, e.width), e.width)]

CdCodeOf(e, w) == IF Len(w) = 1 THEN w[1] ELSE e.dict[w]

RECURSIVE CdPeerLoop(_, _, _, _)
CdPeerLoop(e, w, rest, clears) ==
    IF rest = <<>> THEN CdPeerEmit(e, CdCodeOf(e, w))
    ELSE LET longer == Append(w, rest[1])
             grown(sent) == IF sent.next < CdPow2(e.max)
                            THEN [sent EXCEPT !.next = @ + 1,
                                              !.dict = [t \in DOMAIN sent.dict \cup {longer} |->
                                                          IF t = longer THEN sent.next ELSE sent.dict[t]]]
                            ELSE sent
             cleared(sent) == IF clears /\ sent.next = CdPow2(e.max) THEN CdPeerClear(sent) ELSE sent
         IN  IF longer \in DOMAIN e.dict THEN CdPeerLoop(e, longer, Tail(rest), clears)
             ELSE CdPeerLoop(cleared(grown(CdPeerEmit(e, CdCodeOf(e, w)))), <<rest[1]>>, Tail(rest), clears)

CdCompressed(body, max, clears) ==
    LET letters == [i \in DOMAIN body |-> body[i].b]
        all(e) == e.done \o e.part
        coded(bits) == <<[lzw |-> max, block |-> TRUE]>> \o [i \in DOMAIN bits |-> [bit |-> bits[i]]]
    IN  IF body = <<>> THEN coded(<<>>)
        ELSE coded(all(CdPeerLoop(CdPeerStart(max), <<letters[1]>>, Tail(letters), clears)))

CdSealed(body, size, padding) ==
    LET room == size - 2 - padding
        count == IF body = <<>> THEN 1 ELSE (Len(body) + room - 1) \div room
        text(i) == SubSeq(body, (i - 1) * room + 1, IF i * room < Len(body) THEN i * room ELSE Len(body))
    IN  <<[record |-> size]>> \o
        [i \in 1..count |-> [seq |-> i - 1,
                             sealed |-> text(i) \o <<[pad |-> IF i = count THEN 2 ELSE 1]>>
                                        \o [k \in 1..padding |-> [pad |-> 0]]]]

CdGzipped(body, flags) ==
    LET named == <<[gzip |-> flags]>> \o
                 [i \in 1..Cardinality(flags \cap {"extra", "name", "comment"}) |-> [field |-> i]]
        head == IF "hcrc" \in flags THEN Append(named, [field |-> 0, of |-> named]) ELSE named
    IN  head \o <<[raw |-> body], CdComputeCrc32(body), [size |-> Len(body)]>>

CdEncodeOne(body, coding, style) ==
    CASE coding = "gzip" -> CdGzipped(body, style.gzip)
      [] coding = "deflate" -> IF style.zlib THEN <<[zlib |-> 0], [raw |-> body], CdComputeAdler32(body)>>
                               ELSE <<[raw |-> body]>>
      [] coding \in {"br", "dcb"} -> <<[br |-> body, dict |-> coding = "dcb"]>>
      [] coding \in {"zstd", "dcz"} -> <<[zstd |-> body, dict |-> coding = "dcz"]>>
      [] coding = "compress" -> CdCompressed(body, style.max, style.clears)
      [] coding = "aes128gcm" -> CdSealed(body, style.record, style.padding)
      [] OTHER -> body

CdEncode(tokens, body, style) ==
    FoldLeft(LAMBDA items, token : CdEncodeOne(items, CdAcceptCodingFromToken(token), style), body, tokens)

\* What may become of a coded body on the way: it loses its end, two records change places, a
\* compressed part expands to something else, or a reserved flag is set.  Losing all of it is the
\* message framing's to notice.
CdShortened(body) == IF body = <<>> THEN <<[b |-> 0]>> ELSE Front(body)
CdDamaged(items) ==
    {Front(items) : i \in 1..(IF Len(items) > 1 THEN 1 ELSE 0)} \cup
    {[items EXCEPT ![i] = items[i + 1], ![i + 1] = items[i]] : i \in {j \in 1..Len(items) - 1 : CdHas(items[j + 1], "sealed")}} \cup
    {[items EXCEPT ![i] = [raw |-> CdShortened(@.raw)]] : i \in {j \in DOMAIN items : CdHas(items[j], "raw")}} \cup
    {[items EXCEPT ![1] = [gzip |-> @.gzip \cup {"reserved"}]] : i \in {j \in 1..1 \cap DOMAIN items : CdHas(items[j], "gzip")}}

----------------------------------------
(* DeflateRuntimeAvailable: the first thread probes, the others wait for its verdict. *)

CdTokensNeedRuntime(tokens) == \E i \in DOMAIN tokens : CdCodingRequiresDeflateRuntime(CdAcceptCodingFromToken(tokens[i]))

CdWantsVerdict(p) ==
    \/ p # CdMe
    \/ cdCall.phase = "ask"
    \/ cdCall.phase = "received" /\ CdTokensNeedRuntime(cdCall.tokens)

\* Mutant: a thread that finds the probe under way does not wait for its verdict.
CdDeflateRuntimeAssumed(p) ==
    /\ cdThread[p] = "idle" /\ CdWantsVerdict(p)
    /\ cdRuntime' = IF cdRuntime = "unknown" THEN "probing" ELSE cdRuntime
    /\ cdThread' = [cdThread EXCEPT ![p] = CASE cdRuntime = "unknown" -> "probing"
                                             [] cdRuntime = "probing" -> "yes"
                                             [] OTHER -> cdRuntime]
    /\ UNCHANGED <<cdWorks, cdFailures, cdCall>>

CdDeflateRuntimeAvailable(p) ==
    /\ cdThread[p] = "idle" /\ CdWantsVerdict(p)
    /\ cdRuntime' = IF cdRuntime = "unknown" THEN "probing" ELSE cdRuntime
    /\ cdThread' = [cdThread EXCEPT ![p] = CASE cdRuntime = "unknown" -> "probing"
                                             [] cdRuntime = "probing" -> "waiting"
                                             [] OTHER -> cdRuntime]
    /\ UNCHANGED <<cdWorks, cdFailures, cdCall>>

\* The probe decompresses five known bytes; an allocation that fails counts as no runtime.
CdProbeDeflateRuntime(p) ==
    /\ cdThread[p] = "probing"
    /\ \E fails \in {FALSE} \cup (IF cdFailures < CdMaxFailures THEN {TRUE} ELSE {}) :
          LET verdict == IF cdWorks /\ ~fails THEN "yes" ELSE "no"
          IN  /\ cdRuntime' = verdict
              /\ cdThread' = [cdThread EXCEPT ![p] = verdict]
              /\ cdFailures' = IF fails THEN cdFailures + 1 ELSE cdFailures
    /\ UNCHANGED <<cdWorks, cdCall>>

CdWaitedForProbe(p) ==
    /\ cdThread[p] = "waiting" /\ cdRuntime # "probing"
    /\ cdThread' = [cdThread EXCEPT ![p] = cdRuntime]
    /\ UNCHANGED <<cdRuntime, cdWorks, cdFailures, cdCall>>

CdVerdict == cdThread[CdMe] = "yes"
CdSettled == cdThread[CdMe] \in {"yes", "no"}

----------------------------------------
(* The exchange *)

CdKeepProbe == UNCHANGED <<cdRuntime, cdWorks, cdFailures, cdThread>>

CdIdleCall == [phase |-> "idle", req |-> [own |-> <<>>, prefs |-> <<>>], transport |-> "h1", lines |-> <<>>,
               policy |-> {}, tokens |-> <<>>, style |-> {}, plain |-> <<>>, items |-> <<>>, damaged |-> FALSE,
               negotiated |-> FALSE, capacity |-> CdInitialCapacity, status |-> "none", result |-> <<>>]

CdDone(status, result) == [cdCall EXCEPT !.phase = "done", !.status = status, !.result = result]

\* A header of the application's own stands as it is; else one is generated from the preferences.
CdBuildEffectiveAcceptEncoding(req, transport) ==
    /\ cdCall.phase = "idle"
    /\ LET call == [cdCall EXCEPT !.req = req, !.transport = transport, !.phase = "ask"]
       IN  cdCall' = IF ~CdValidateAcceptEncodingPreferences(req.prefs)
                     THEN [call EXCEPT !.phase = "done", !.status = "refused"]
                     ELSE IF req.own = <<>> THEN call
                     ELSE [call EXCEPT !.phase = "built", !.lines = req.own]
    /\ CdKeepProbe

CdGenerateAcceptEncoding ==
    /\ cdCall.phase = "ask" /\ CdSettled
    /\ LET header == CdBuildAcceptEncodingHeader(cdCall.req.prefs, CdVerdict)
       IN  cdCall' = IF header.ok THEN [cdCall EXCEPT !.phase = "built", !.lines = <<header.line>>]
                     ELSE CdDone("refused", <<>>)
    /\ CdKeepProbe

\* HTTP/1 and HTTP/2 hold the response to the header sent; HTTP/3 decodes without a policy.
CdTransmit ==
    /\ cdCall.phase = "built"
    /\ LET rules == CdBuildAcceptEncodingPolicyFromRequestHeaders(cdCall.lines)
       IN  cdCall' = CASE cdCall.transport = "h3" -> [cdCall EXCEPT !.phase = "sent"]
                       [] rules.ok -> [cdCall EXCEPT !.phase = "sent", !.policy = {rules}]
                       [] OTHER -> CdDone("refused", <<>>)
    /\ CdKeepProbe

CdDeliver(tokens, body, style, negotiated, damage) ==
    LET arrives(items) == IF damage THEN CdDamaged(items) ELSE {items}
    IN  \E got \in arrives(CdEncode(tokens, body, style)) :
          cdCall' = [cdCall EXCEPT !.phase = "received", !.tokens = tokens, !.style = {style}, !.plain = body,
                                   !.items = got, !.damaged = damage, !.negotiated = negotiated]

\* A server that reads Accept-Encoding as the library itself would.
CdAnswer(body, style) ==
    /\ cdCall.phase = "sent"
    /\ LET rules == FoldLeft(CdParseAcceptEncoding, CdNoRules, cdCall.lines)
           answer(token) == IF token = "" THEN cdCall' = CdDone("notacceptable", <<>>)
                          ELSE CdDeliver(IF token = "identity" THEN <<>> ELSE <<token>>, body, style, TRUE, FALSE)
       IN  answer(CdNegotiateContentCoding(rules, CdOffers))
    /\ CdKeepProbe

\* One that does not, over a path that may damage the body.
CdPush(exchange, damage) ==
    /\ cdCall.phase = "sent"
    /\ CdDeliver(exchange.chain, exchange.body, exchange.style, FALSE, damage)
    /\ CdKeepProbe

\* Decode, and while the buffer is too small grow it and start again.
CdDecodeContentWithWorkspace ==
    /\ cdCall.phase = "received"
    /\ CdTokensNeedRuntime(cdCall.tokens) => CdSettled /\ cdRuntime \in {"yes", "no"}
    /\ LET larger == IF cdCall.capacity * 2 > CdMaxResponse THEN CdMaxResponse ELSE cdCall.capacity * 2
           after(result) ==
               CASE result.st = "success" /\ Len(result.out) > CdMaxResponse -> CdDone("small", <<>>)
                 [] result.st # "small" -> CdDone(result.st, IF result.st = "success" THEN result.out ELSE <<>>)
                 [] cdCall.capacity >= CdMaxResponse -> CdDone("small", <<>>)
                 [] OTHER -> [cdCall EXCEPT !.capacity = larger]
       IN  cdCall' = after(CdDecodeContent(cdCall.tokens, cdCall.items, cdCall.policy,
                                           [decoded |-> cdCall.capacity, scratch |-> CdScratch],
                                           cdRuntime = "yes"))
    /\ CdKeepProbe

----------------------------------------
CdInit ==
    /\ cdRuntime = "unknown" /\ cdFailures = 0
    /\ cdWorks \in BOOLEAN
    /\ cdThread = [p \in CdThreads |-> "idle"]
    /\ cdCall = CdIdleCall

CdNext ==
    \/ \E p \in CdThreads : CdDeflateRuntimeAvailable(p) \/ CdProbeDeflateRuntime(p) \/ CdWaitedForProbe(p)
    \/ \E req \in CdRequests, t \in CdTransports : CdBuildEffectiveAcceptEncoding(req, t)
    \/ CdGenerateAcceptEncoding
    \/ CdTransmit
    \/ \E body \in CdBodies, style \in CdStyles : CdAnswer(body, style)
    \/ \E x \in CdExchanges, damage \in BOOLEAN : CdPush(x, damage)
    \/ CdDecodeContentWithWorkspace

CdSpec == CdInit /\ [][CdNext]_cdVars

----------------------------------------
(* What the application asked for, read from its request and not from the header made of it. *)
CdAsked(req) ==
    IF req.own # <<>>
    THEN {<<CdAcceptCodingFromToken(e.token), CdParseQValue(e.q)>> : e \in UNION {ToSet(req.own[i]) : i \in DOMAIN req.own}}
    ELSE IF req.prefs # <<>> THEN {<<req.prefs[i].coding, req.prefs[i].q>> : i \in DOMAIN req.prefs}
    ELSE {<<c, 1000>> : c \in {"gzip", "deflate", "br", "zstd", "identity"}}

CdAllows(req, coding) ==
    LET asked == CdAsked(req)
        rated(c) == \E a \in asked : a[1] = c
        positive(c) == \E a \in asked : a[1] = c /\ a[2] > 0
    IN  CASE rated(coding) -> positive(coding)
          [] coding = "identity" -> rated("any") => positive("any")
          [] OTHER -> positive("any")

CdChain == [i \in DOMAIN cdCall.tokens |-> CdAcceptCodingFromToken(cdCall.tokens[i])]

\* The body before each coding was put on: what the decoder has to come through.
CdStage(k) == LET style == CHOOSE s \in cdCall.style : TRUE IN CdEncode(SubSeq(cdCall.tokens, 1, k), cdCall.plain, style)

CdWithinLimits ==
    \A k \in 1..Len(cdCall.tokens) :
        /\ Len(CdStage(k - 1)) <= CdMaxResponse
        /\ Len(CdStage(k - 1)) <= Len(CdStage(k)) * CdMaxRatio

\* Every second coding is undone into the scratch buffer, which never grows, and Zstandard's
\* decoder does not ask for a larger buffer: what they make of the body has to fit as it is.
CdBuffersSuffice ==
    \A k \in {j \in DOMAIN CdChain : CdChain[j] # "identity"} :
        LET before == {j \in DOMAIN CdChain : j > k /\ CdChain[j] # "identity"}
        IN  IF Cardinality(before) % 2 = 1 THEN Len(CdStage(k - 1)) <= CdScratch
            ELSE CdChain[k] \in {"zstd", "dcz"} => Len(CdStage(k - 1)) <= CdInitialCapacity

CdUsable(coding) ==
    /\ coding \in CdCodings \ {"exi", "pack200-gzip"}
    /\ coding \in {"dcb", "dcz", "aes128gcm"} => coding \in CdMaterials
    /\ CdCodingRequiresDeflateRuntime(coding) => cdRuntime = "yes"

CdIntegrity(coding) ==
    \/ coding \in {"gzip", "aes128gcm"}
    \/ coding = "deflate" /\ \A s \in cdCall.style : s.zlib

CdDecided == cdCall.phase = "done" /\ cdCall.status \in {"success", "invalid", "small", "unsupported"}

\* An undamaged body within the limits, in codings the request allows.
CdDue ==
    /\ ~cdCall.damaged /\ CdWithinLimits
    /\ \A i \in DOMAIN CdChain : CdUsable(CdChain[i]) /\ CdAllows(cdCall.req, CdChain[i])
    /\ CdChain = <<>> => CdAllows(cdCall.req, "identity")

\* A body that decodes is the body the server coded: whatever chain of
\* codings, container variant, width change of LZW, record split and
\* buffer growth lies between, and a damaged body is refused wherever one
\* of its codings carries a checksum (DecodeChainReverse, DecodeGzip,
\* DecodeCompressWithTables, DecodeAes128Gcm).  And no coding is undone
\* that the request ruled out, while an undamaged body within the limits,
\* in codings the request allows, is never refused if the two buffers
\* suffice for it.
DecodedIsWhatWasSent ==
    CdDecided =>
        /\ cdCall.status = "success" =>
              /\ \/ cdCall.result = cdCall.plain
                 \/ cdCall.damaged /\ \A i \in DOMAIN CdChain : ~CdIntegrity(CdChain[i])
              /\ \A i \in DOMAIN CdChain : CdAllows(cdCall.req, CdChain[i])
        /\ CdDue /\ CdBuffersSuffice => cdCall.status = "success"

\* What a server may expect, and the code does not keep: the response's own
\* limits are the only ones (GrowDecodedBodyAfterBufferTooSmall).
OnlyLimitsRefuse == CdDecided /\ CdDue => cdCall.status = "success"

\* A coding the library itself put into Accept-Encoding is one it takes
\* back: a server that chose it by that header, ratings included, is never
\* answered with "not supported", whichever thread probed the deflate
\* runtime (BuildAcceptEncodingHeader, DeflateRuntimeAvailable).
OfferedIsDecodable ==
    cdCall.phase = "done" /\ cdCall.negotiated /\ cdCall.req.own = <<>> /\ cdCall.status = "unsupported" =>
        \E i \in DOMAIN CdChain :
            /\ ~\E a \in CdAsked(cdCall.req) : a[1] = CdChain[i]
            /\ \E a \in CdAsked(cdCall.req) : a[1] = "any"

(* What a request offers can be decoded, and what is decoded is what the     *)
(* server encoded.                                                           *)
CodingsAgree == DecodedIsWhatWasSent /\ OfferedIsDecodable
=============================================================================
