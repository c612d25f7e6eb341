--------------------------- MODULE CertificatePath ---------------------------
\* Validation of a server's certificate chain: tls/CertificateValidator.cpp
\* over tls/CertificateStore.cpp.  A certificate has two forms.  What its
\* issuer meant is a record (CvCert); what the peer presents is its DER
\* form (CvEncode), a list of extensions each of which is a list of tagged
\* items.  ParseChain turns the second into ParsedCertificate records, the
\* path search walks them with its frames, and the checks and the
\* revocation loop follow in the order of ValidateChainImpl.  The property
\* judges the outcome by what the issuers meant and never looks at a parsed
\* record.
\*
\* Names and keys are strings; a signature is the key that made it and its
\* algorithm.  A DNS name is a sequence of labels.  Times are years.
EXTENDS Integers, Sequences, FiniteSets, SequencesExt

CONSTANTS
    CvCasts,        \* sets of certificates a server may present, in any order
    CvFaults,       \* what may be unusual about one presented certificate
    CvHosts,        \* the host names a client may ask for
    CvTrusts,       \* what the caller's store trusts
    CvEvidence,     \* kinds of revocation evidence
    CvPlaces,       \* where the evidence for one certificate may lie
    CvMaxNames,     \* DNS names a parsed certificate caches
    CvMaxConstraints, \* CertificateMaxNameConstraints, of each kind and list
    CvMaxChain      \* CertificateMaxChainLength

ASSUME CvAssumption == {CvMaxNames, CvMaxConstraints, CvMaxChain} \subseteq Nat \ {0}

VARIABLES
    cvIn,       \* chain, host, trust, place, evidence: the call's arguments
    cvPc,       \* "parse", "leaf", "search", "checks", "revocation", "done"
    cvCerts,    \* parsed certificates; from "checks" on, the path, leaf first
    cvLeaf,     \* leafPass and leafIndex
    cvPath,     \* pathIndices
    cvFrames,   \* frames: Priority and NextCandidateIndex
    cvUsed,     \* used
    cvAnchor,   \* scratch.Anchor: the bundle certificate parsed last, or <<>>
    cvIndex,    \* index of the revocation loop
    cvVerdict   \* "none", "accepted" or the failing status

cvVars == <<cvIn, cvPc, cvCerts, cvLeaf, cvPath, cvFrames, cvUsed, cvAnchor,
            cvIndex, cvVerdict>>

Now == 2026
----------------------------------------
(* What issuers mean. *)

CvBase == [subj |-> "", iss |-> "", key |-> "", by |-> "", alg |-> "ecdsa",
           from |-> 2020, to |-> 2030, ca |-> TRUE, len |-> -1,
           use |-> {"keyCertSign", "crlSign"}, names |-> <<>>, permitted |-> <<>>,
           excluded |-> <<>>, policies |-> <<>>, explicit |-> FALSE,
           eku |-> <<>>, ids |-> TRUE, form |-> "plain", serial |-> "s"]

CvEnd == [CvBase EXCEPT !.subj = "Site", !.ca = FALSE, !.use = {"digitalSignature"},
          !.names = <<<<"dns", <<"www", "site">>>>>>, !.eku = <<"serverAuth">>, !.key = "kSite"]

(* The certificates of the small world: a site below CA below Root; CA also  *)
(* certified by Other (cross-signed), re-keyed (rekeyed), with a subordinate; *)
(* and a site that signs for itself. *)
CvCert(n) ==
  CASE n = "site"    -> [CvEnd EXCEPT !.iss = "CA", !.by = "kCA", !.serial = n]
    [] n = "deep"    -> [CvEnd EXCEPT !.iss = "Sub", !.by = "kSub", !.serial = n]
    [] n = "self"    -> [CvEnd EXCEPT !.iss = "Site", !.by = "kSite", !.serial = n]
    [] n = "sub"     -> [CvBase EXCEPT !.subj = "Sub", !.iss = "CA", !.key = "kSub",
                                       !.by = "kCA", !.serial = n]
    [] n = "ca"      -> [CvBase EXCEPT !.subj = "CA", !.iss = "Root", !.key = "kCA",
                                       !.by = "kRoot", !.serial = n]
    [] n = "cross"   -> [CvBase EXCEPT !.subj = "CA", !.iss = "Other", !.key = "kCA",
                                       !.by = "kOther", !.serial = n]
    [] n = "rekeyed" -> [CvBase EXCEPT !.subj = "CA", !.iss = "Root", !.key = "kCA2",
                                       !.by = "kRoot", !.serial = n]
    [] n = "root"    -> [CvBase EXCEPT !.subj = "Root", !.iss = "Root", !.key = "kRoot",
                                       !.by = "kRoot", !.serial = n]
    [] n = "responder" -> [CvEnd EXCEPT !.subj = "Responder", !.iss = "CA", !.by = "kCA",
                                        !.key = "kResponder", !.eku = <<"OCSPSigning">>]

(* One thing that is unusual about a certificate. *)
CvWith(c, f) ==
  CASE f = "none"       -> c
    [] f = "expired"    -> [c EXCEPT !.to = 2025]
    [] f = "future"     -> [c EXCEPT !.from = 2027]
    [] f = "nineties"   -> [c EXCEPT !.from = 1990]
    [] f = "longlived"  -> [c EXCEPT !.to = 2060]
    [] f = "notca"      -> [c EXCEPT !.ca = FALSE]
    [] f = "isca"       -> [c EXCEPT !.ca = TRUE]
    [] f = "length0"    -> IF c.ca THEN [c EXCEPT !.len = 0] ELSE c
    [] f = "nosign"     -> [c EXCEPT !.use = @ \ {"keyCertSign", "digitalSignature"}]
    [] f = "noids"      -> [c EXCEPT !.ids = FALSE]
    [] f = "badsig"     -> [c EXCEPT !.by = "kForged"]
    [] f = "oldalg"     -> [c EXCEPT !.alg = "sha1"]
    [] f = "othername"  -> [c EXCEPT !.names = <<<<"dns", <<"mail", "site">>>>>>]
    [] f = "wild"       -> [c EXCEPT !.names = <<<<"dns", <<"*", "site">>>>>>]
    [] f = "toowild"    -> [c EXCEPT !.names = <<<<"dns", <<"*", "www", "site">>>>>>]
    [] f = "nonames"    -> [c EXCEPT !.names = <<>>]
    [] f = "manynames"  -> [c EXCEPT !.names = <<<<"dns", <<"mail", "site">>>>, <<"dns", <<"ftp", "site">>>>>> \o @]
    [] f = "address"    -> [c EXCEPT !.names = <<<<"ip", 7>>>> \o @]
    [] f = "foreign"    -> [c EXCEPT !.names = <<<<"dns", <<"xn--www", "site">>>>>>]
    [] f = "permits"    -> [c EXCEPT !.permitted = <<<<"dns", [dot |-> FALSE, base |-> <<"site">>]>>>>]
    [] f = "elsewhere"  -> [c EXCEPT !.permitted = <<<<"dns", [dot |-> FALSE, base |-> <<"shop">>]>>>>]
    [] f = "excludes"   -> [c EXCEPT !.excluded = <<<<"ip", 0 .. 3>>, <<"dns", [dot |-> TRUE, base |-> <<"site">>]>>>>]
    [] f = "manypermits" -> [c EXCEPT !.permitted = <<<<"dns", [dot |-> FALSE, base |-> <<"shop">>]>>,
                                                      <<"dns", [dot |-> FALSE, base |-> <<"site">>]>>>>]
    [] f = "manyexcludes" -> [c EXCEPT !.excluded = <<<<"dns", [dot |-> FALSE, base |-> <<"shop">>]>>,
                                                      <<"dns", [dot |-> FALSE, base |-> <<"site">>]>>>>]
    [] f = "subnet"     -> [c EXCEPT !.permitted = <<<<"ip", 0 .. 3>>>>]
    [] f = "directory"  -> [c EXCEPT !.permitted = <<<<"directory", "CA">>>>]
    [] f = "email"      -> [c EXCEPT !.excluded = <<<<"email", "site">>>>]
    [] f = "policy"     -> [c EXCEPT !.policies = <<"p1">>]
    [] f = "explicit"   -> [c EXCEPT !.explicit = TRUE]
    [] f = "client"     -> [c EXCEPT !.eku = <<"clientAuth">>]
    [] OTHER            -> [c EXCEPT !.form = f]    \* "critical", "extra", "twice", "short"
----------------------------------------
(* The DER form. *)

CvDerTime(y) == IF y \in 1950 .. 2049 THEN <<"utc", y % 100>> ELSE <<"generalized", y>>

CvSubtrees(kind, list) ==
  IF list = <<>> THEN <<>>
  ELSE <<<<kind, list>>>>

CvExtension(oid, value) == [oid |-> oid, critical |-> oid = "basicConstraints", value |-> value]

CvExtensions(c) ==
  LET when(b, oid, v) == IF b THEN <<CvExtension(oid, v)>> ELSE <<>>
      listed ==
        when(c.ca \/ c.len >= 0, "basicConstraints",
             (IF c.ca THEN <<<<"bool", TRUE>>>> ELSE <<>>)
               \o (IF c.len >= 0 THEN <<<<"int", c.len>>>> ELSE <<>>))
        \o when(TRUE, "keyUsage", c.use)
        \o when(c.names # <<>>, "subjectAltName",
                c.names)
        \o when(c.ids, "subjectKeyIdentifier", c.key)
        \o when(c.ids, "authorityKeyIdentifier", <<<<"serial", c.serial>>, <<"keyid", c.by>>>>)
        \o when(c.permitted # <<>> \/ c.excluded # <<>>, "nameConstraints",
                CvSubtrees("permitted", c.permitted) \o CvSubtrees("excluded", c.excluded))
        \o when(c.policies # <<>>, "certificatePolicies", c.policies)
        \o when(c.explicit, "policyConstraints", <<<<"explicit", 0>>>>)
        \o when(c.eku # <<>>, "extendedKeyUsage", c.eku)
  IN listed \o CASE c.form = "critical" -> <<[CvExtension("new", <<>>) EXCEPT !.critical = TRUE]>>
                 [] c.form = "extra"    -> <<CvExtension("new", <<>>)>>
                 [] c.form = "twice"    -> <<listed[1]>>
                 [] OTHER               -> <<>>

CvEncode(c) ==
  [serial |-> c.serial, inner |-> c.alg, issuer |-> c.iss,
   validity |-> <<CvDerTime(c.from), CvDerTime(c.to)>>, subject |-> c.subj,
   spki |-> [alg |-> "ecdsa", key |-> c.key], extensions |-> CvExtensions(c),
   outer |-> c.alg, signature |-> c.by, whole |-> c.form # "short"]
----------------------------------------
(* Parsing: every Parse operator takes the certificate parsed so far and     *)
(* returns it extended, or with a failing status.                           *)

CvBlank ==
  [st |-> "ok", subj |-> "", iss |-> "", serial |-> "", key |-> "", keyAlg |-> "", alg |-> "",
   sig |-> "", notBefore |-> 0, notAfter |-> 0, hasBasic |-> FALSE, isCa |-> FALSE, pathLen |-> -1,
   hasUsage |-> FALSE, usage |-> {}, skid |-> "", akid |-> "", names |-> <<>>, truncated |-> {},
   altNames |-> <<>>, constrained |-> FALSE, permitted |-> <<>>, excluded |-> <<>>,
   policies |-> <<>>, hasPolicies |-> FALSE, policiesCritical |-> FALSE, explicit |-> -1,
   inhibitAny |-> -1, hasEku |-> FALSE, eku |-> {}]

CvFail(p, st) == [p EXCEPT !.st = st]

ParseAlgorithmIdentifier(alg) == IF alg \in {"ecdsa", "rsa", "ed25519"} THEN alg ELSE "unknown"

ParseDerTime(t) ==
  IF t[1] = "generalized" THEN t[2]
  ELSE IF t[2] >= 50 THEN 1900 + t[2] ELSE 2000 + t[2]

ParseBasicConstraints(items, p) ==
  LET tag(i) == items[i][1]
      ca  == items # <<>> /\ tag(1) = "bool" /\ items[1][2]
      len == IF items # <<>> /\ items[Len(items)][1] = "int" THEN items[Len(items)][2] ELSE -1
  IN IF \/ Len(items) > 2
        \/ items # <<>> /\ tag(1) \notin {"bool", "int"}
        \/ Len(items) = 2 /\ tag(2) # "int"
        \/ len >= 0 /\ ~ca
     THEN CvFail(p, "invalid")
     ELSE [p EXCEPT !.hasBasic = TRUE, !.isCa = ca, !.pathLen = len]

ParseKeyUsage(bits, p) == [p EXCEPT !.hasUsage = TRUE, !.usage = bits]

(* DNS names and addresses have a cache each; what does not fit is not        *)
(* copied, and the flag tells later checks to read the extension again.      *)
ParseSubjectAltName(items, p) ==
  LET of(kind)   == SelectSeq(items, LAMBDA x : x[1] = kind)
      fits(kind) == SubSeq(of(kind), 1, IF Len(of(kind)) < CvMaxNames THEN Len(of(kind)) ELSE CvMaxNames)
  IN [p EXCEPT !.altNames = items, !.names = fits("dns") \o fits("ip"),
               !.truncated = {k \in {"dns", "ip"} : Len(of(k)) > CvMaxNames}]

ParseSubjectKeyIdentifier(id, p) ==
  IF id = "" THEN CvFail(p, "invalid") ELSE [p EXCEPT !.skid = id]

ParseAuthorityKeyIdentifier(items, p) ==
  LET ids == SelectSeq(items, LAMBDA x : x[1] = "keyid")
  IN IF Len(ids) > 1 \/ \E i \in DOMAIN items : items[i][1] \notin {"keyid", "issuer", "serial"}
     THEN CvFail(p, "invalid")
     ELSE [p EXCEPT !.akid = IF ids = <<>> THEN "" ELSE ids[1][2]]

(* A subtree beyond the fixed cache of its kind is left out without a word. *)
CvOfKind(list, kind) == SelectSeq(list, LAMBDA s : s[1] = kind)

CvAddConstraint(p, permitted, item) ==
  IF Len(CvOfKind(IF permitted THEN p.permitted ELSE p.excluded, item[1])) >= CvMaxConstraints THEN p
  ELSE IF permitted THEN [p EXCEPT !.permitted = Append(@, item)]
  ELSE [p EXCEPT !.excluded = Append(@, item)]

AddDnsNameConstraint(p, permitted, item) ==
  IF item[2].base = <<>> THEN CvFail(p, "invalid") ELSE CvAddConstraint(p, permitted, item)
AddIpNameConstraint(p, permitted, item) ==
  IF item[2] = {} THEN CvFail(p, "invalid") ELSE CvAddConstraint(p, permitted, item)
AddDirectoryNameConstraint(p, permitted, item) ==
  IF item[2] = "" THEN CvFail(p, "invalid") ELSE CvAddConstraint(p, permitted, item)

ParseNameConstraintSubtree(p, permitted, item) ==
  CASE p.st # "ok"                             -> p
    [] p.st = "ok" /\ item[1] = "dns"          -> AddDnsNameConstraint(p, permitted, item)
    [] p.st = "ok" /\ item[1] = "ip"           -> AddIpNameConstraint(p, permitted, item)
    [] p.st = "ok" /\ item[1] = "directory"    -> AddDirectoryNameConstraint(p, permitted, item)
    [] OTHER                                   -> CvFail(p, "unsupported")

ParseNameConstraintSubtrees(p, permitted, items) ==
  FoldLeft(LAMBDA q, item : ParseNameConstraintSubtree(q, permitted, item), p, items)

ParseNameConstraints(lists, p) ==
  FoldLeft(LAMBDA q, l : IF q.st # "ok" THEN q
                         ELSE ParseNameConstraintSubtrees(q, l[1] = "permitted", l[2]),
           [p EXCEPT !.constrained = TRUE], lists)

ParseCertificatePolicies(oids, critical, p) ==
  IF oids = <<>> THEN CvFail(p, "invalid")
  ELSE [p EXCEPT !.hasPolicies = TRUE, !.policies = oids, !.policiesCritical = critical]

ParsePolicyConstraints(items, p) ==
  IF items = <<>> \/ \E i \in DOMAIN items : items[i][1] \notin {"explicit", "mapping"}
  THEN CvFail(p, "invalid")
  ELSE LET e == SelectSeq(items, LAMBDA x : x[1] = "explicit")
       IN [p EXCEPT !.explicit = IF e = <<>> THEN -1 ELSE e[Len(e)][2]]

ParseInhibitAnyPolicy(n, p) == [p EXCEPT !.inhibitAny = n]

ParseExtendedKeyUsage(oids, p) ==
  [p EXCEPT !.hasEku = TRUE, !.eku = {"serverAuth", "OCSPSigning"} \cap ToSet(oids)]

ParseExtension(p, exts, i) ==
  LET e == exts[i] IN
  IF p.st # "ok" THEN p
  ELSE IF \E j \in 1 .. i - 1 : exts[j].oid = e.oid THEN CvFail(p, "invalid")
  ELSE CASE e.oid = "basicConstraints"       -> ParseBasicConstraints(e.value, p)
         [] e.oid = "keyUsage"               -> ParseKeyUsage(e.value, p)
         [] e.oid = "subjectKeyIdentifier"   -> ParseSubjectKeyIdentifier(e.value, p)
         [] e.oid = "authorityKeyIdentifier" -> ParseAuthorityKeyIdentifier(e.value, p)
         [] e.oid = "subjectAltName"         -> ParseSubjectAltName(e.value, p)
         [] e.oid = "nameConstraints"        -> ParseNameConstraints(e.value, p)
         [] e.oid = "certificatePolicies"    -> ParseCertificatePolicies(e.value, e.critical, p)
         [] e.oid = "policyConstraints"      -> ParsePolicyConstraints(e.value, p)
         [] e.oid = "inhibitAnyPolicy"       -> ParseInhibitAnyPolicy(e.value, p)
         [] e.oid = "extendedKeyUsage"       -> ParseExtendedKeyUsage(e.value, p)
         [] OTHER -> IF e.critical THEN CvFail(p, "invalid") ELSE p

ParseExtensions(exts, p) ==
  FoldLeft(LAMBDA q, i : ParseExtension(q, exts, i), p, [i \in DOMAIN exts |-> i])

ParseSubjectPublicKeyInfo(spki, p) ==
  IF ParseAlgorithmIdentifier(spki.alg) = "unknown" THEN CvFail(p, "unsupported")
  ELSE [p EXCEPT !.key = spki.key, !.keyAlg = spki.alg]

CvParseCertificate(d) ==
  LET head == [CvBlank EXCEPT !.subj = d.subject, !.iss = d.issuer, !.serial = d.serial,
                              !.alg = ParseAlgorithmIdentifier(d.outer), !.sig = d.signature,
                              !.notBefore = ParseDerTime(d.validity[1]),
                              !.notAfter = ParseDerTime(d.validity[2])]
      spki == ParseSubjectPublicKeyInfo(d.spki, head)
  IN IF ~d.whole \/ ParseAlgorithmIdentifier(d.inner) # head.alg THEN CvFail(CvBlank, "invalid")
     ELSE IF spki.st # "ok" THEN spki
     ELSE ParseExtensions(d.extensions, spki)
----------------------------------------
(* Names, signatures, issuers. *)

HostNameMatches(pattern, host) ==
  IF Len(pattern) > 1 /\ pattern[1] = "*"
  THEN Len(host) = Len(pattern) /\ Tail(host) = Tail(pattern)
  ELSE pattern = host

(* A label outside ASCII becomes its Punycode form, when IDNA is enabled.      *)
CvUnicode == {"u-www"}
PunycodeEncodeLabel(label) == IF label = "u-www" THEN "xn--www" ELSE label

NormalizeDnsName(labels) == [i \in DOMAIN labels |-> PunycodeEncodeLabel(labels[i])]

(* The host is an address literal, <<"ip", address>>, or <<"dns", labels>>.    *)
ParseIpLiteral(host) == host[1] = "ip"

CvHostFails == /\ ~ParseIpLiteral(cvIn.host) /\ ~cvIn.idna
               /\ \E i \in DOMAIN cvIn.host[2] : cvIn.host[2][i] \in CvUnicode

CvHost == IF ParseIpLiteral(cvIn.host) THEN cvIn.host ELSE <<"dns", NormalizeDnsName(cvIn.host[2])>>

CvNames(name, host) ==
  /\ name[1] = host[1]
  /\ IF host[1] = "ip" THEN name[2] = host[2] ELSE HostNameMatches(name[2], host[2])

HostMatchesFullSubjectAltName(c, host) == \E i \in DOMAIN c.altNames : CvNames(c.altNames[i], host)

(* The mutant forgets the names that did not fit the cache. *)
ValidateCachedHostName(c, host) == \E i \in DOMAIN c.names : CvNames(c.names[i], host)

ValidateHostName(c, host) ==
  \/ \E i \in DOMAIN c.names : CvNames(c.names[i], host)
  \/ host[1] \in c.truncated /\ HostMatchesFullSubjectAltName(c, host)

(* "ok", "bad" (STATUS_INVALID_SIGNATURE) or "unsupported".                  *)
VerifyCertificateSignature(c, issuer) ==
  CASE c.alg = "ed25519" -> IF issuer.keyAlg = "ed25519" /\ c.sig = issuer.key THEN "ok" ELSE "bad"
    [] c.alg = "unknown" -> "unsupported"
    [] OTHER             -> IF c.sig = issuer.key THEN "ok" ELSE "bad"

IsExactAnchorMatch(c, anchor) == c.subj = anchor.subj /\ c.key = anchor.key
IsSelfIssued(c) == c.subj = c.iss
CertificateIssuerMatches(child, issuer) == child.iss = issuer.subj

CertificateIssuesAny(certs, i) ==
  \E j \in DOMAIN certs \ {i} : CertificateIssuerMatches(certs[j], certs[i])

CvMayCertify(c) == c.hasBasic /\ c.isCa /\ c.hasUsage /\ "keyCertSign" \in c.usage

CvBothIds(child, issuer) == child.akid # "" /\ issuer.skid # ""

CertificateKeyIdentifiersPermitIssuer(child, issuer) ==
  CvBothIds(child, issuer) => child.akid = issuer.skid

(* [matches |-> ..., st |-> ...]                                            *)
CertificateCanIssueForPath(child, issuer, priority) ==
  IF \/ ~CertificateIssuerMatches(child, issuer)
     \/ ~CvMayCertify(issuer)
     \/ ~CertificateKeyIdentifiersPermitIssuer(child, issuer)
     \/ priority = 2 /\ ~CvBothIds(child, issuer)
  THEN [matches |-> FALSE, st |-> "ok"]
  ELSE LET v == VerifyCertificateSignature(child, issuer)
       IN [matches |-> v = "ok", st |-> IF v = "unsupported" THEN v ELSE "ok"]

CvCountCas(path) == Cardinality({i \in 2 .. Len(path) : path[i].isCa /\ ~IsSelfIssued(path[i])})

CountSubordinateCaCertificates(path, issuerIndex) == CvCountCas(SubSeq(path, 1, issuerIndex - 1))

CountSubordinateCaCertificatesInPath(certs, path) == CvCountCas([i \in DOMAIN path |-> certs[path[i]]])
----------------------------------------
(* The store.  A trust is [anchors, bundles, pins]: pinned subject and key,   *)
(* bundles of authority certificates (PEM: several, broken ones skipped; DER: *)
(* exactly one), and leaf keys pinned for the host.                          *)

CvTrust(t) ==
  CASE t = "root"     -> [anchors |-> {<<"Root", "kRoot">>}, bundles |-> <<>>, pins |-> {}]
    [] t = "ca"       -> [anchors |-> {<<"CA", "kCA">>}, bundles |-> <<>>, pins |-> {}]
    [] t = "site"     -> [anchors |-> {<<"Site", "kSite">>}, bundles |-> <<>>, pins |-> {"kSite"}]
    [] t = "pinned"   -> [anchors |-> {<<"Root", "kRoot">>}, bundles |-> <<>>, pins |-> {"kPinned"}]
    [] t = "bundle"   -> [anchors |-> {}, pins |-> {},
                          bundles |-> <<[pem |-> TRUE,
                             items |-> <<CvEncode(CvWith(CvCert("root"), "short")),
                                         CvEncode(CvCert("root"))>>]>>]
    [] t = "short"    -> [anchors |-> {}, pins |-> {},
                          bundles |-> <<[pem |-> FALSE,
                             items |-> <<CvEncode(CvWith(CvCert("root"), "length0"))>>]>>]

IsTrustedAnchor(trust, c) == <<c.subj, c.key>> \in trust.anchors

MatchesPin(trust, key) == trust.pins = {} \/ key \in trust.pins

(* [trusted, st, anchor] of one authority certificate.                       *)
AnchorSignsCertificate(c, anchor, subordinates) ==
  IF IsExactAnchorMatch(c, anchor) THEN [trusted |-> TRUE, st |-> "ok", anchor |-> <<anchor>>]
  ELSE IF \/ ~CvMayCertify(anchor)
          \/ anchor.pathLen >= 0 /\ subordinates > anchor.pathLen
          \/ ~CertificateIssuerMatches(c, anchor)
  THEN [trusted |-> FALSE, st |-> "ok", anchor |-> <<anchor>>]
  ELSE LET v == VerifyCertificateSignature(c, anchor)
       IN [trusted |-> v = "ok", st |-> IF v = "unsupported" THEN v ELSE "ok", anchor |-> <<anchor>>]

ParsedCertificateMatchesAuthorityBundle(c, bundle, subordinates, found) ==
  FoldLeft(LAMBDA f, d :
             IF f.trusted \/ f.st # "ok" THEN f
             ELSE LET a == CvParseCertificate(d)
                  IN IF a.st = "ok" THEN AnchorSignsCertificate(c, a, subordinates)
                     ELSE [f EXCEPT !.anchor = <<a>>, !.st = IF bundle.pem THEN "ok" ELSE a.st],
           found, bundle.items)

StoreHasTrustedAnchor(trust, c, subordinates, anchor) ==
  IF IsTrustedAnchor(trust, c) THEN [trusted |-> TRUE, st |-> "ok", anchor |-> anchor]
  ELSE FoldLeft(LAMBDA f, b : ParsedCertificateMatchesAuthorityBundle(c, b, subordinates, f),
                [trusted |-> FALSE, st |-> "ok", anchor |-> anchor], trust.bundles)

PathEndsAtTrustedAnchor ==
  StoreHasTrustedAnchor(CvTrust(cvIn.trust), cvCerts[Last(cvPath)],
                        CountSubordinateCaCertificatesInPath(cvCerts, cvPath), cvAnchor)

(* The least index of the path that the store trusts.                        *)
FindTrustedAnchor(trust, path, anchor) ==
  FoldLeft(LAMBDA f, i :
             IF f.trusted \/ f.st # "ok" THEN f
             ELSE LET r == StoreHasTrustedAnchor(trust, path[i],
                             CountSubordinateCaCertificates(path, i + 1), f.anchor)
                  IN [trusted |-> r.trusted, st |-> r.st, anchor |-> r.anchor, index |-> i],
           [trusted |-> FALSE, st |-> "ok", anchor |-> anchor, index |-> 0],
           [i \in DOMAIN path |-> i])
----------------------------------------
(* Constraints an issuer puts on what stands below it. *)

DnsNameMatchesSubtree(name, subtree) ==
  /\ IsSuffix(subtree.base, name)
  /\ subtree.dot => Len(name) > Len(subtree.base)

IpAddressMatchesSubtree(address, subtree) == address \in subtree

(* The issuer's subtrees of the kind: none may exclude it, and some permits it *)
(* unless there is none to permit.                                           *)
CvWithin(issuer, kind, Matches(_)) ==
  LET excluded  == {s \in ToSet(issuer.excluded) : s[1] = kind}
      permitted == {s \in ToSet(issuer.permitted) : s[1] = kind}
  IN /\ \A s \in excluded : ~Matches(s[2])
     /\ permitted = {} \/ \E s \in permitted : Matches(s[2])

ValidateDnsNameAgainstConstraints(name, issuer) ==
  CvWithin(issuer, "dns", LAMBDA s : DnsNameMatchesSubtree(name, s))
ValidateIpAddressAgainstConstraints(address, issuer) ==
  CvWithin(issuer, "ip", LAMBDA s : IpAddressMatchesSubtree(address, s))
ValidateDirectoryNameAgainstConstraints(c, issuer) ==
  CvWithin(issuer, "directory", LAMBDA s : c.subj = s)

(* The common name of a subject, as labels: a site's is its host name.        *)
CommonName(subj) == IF subj = "Site" THEN <<"www", "site">> ELSE <<subj>>

(* The DNS names of c, a common name standing in for none, and its addresses.  *)
CvConstrainedNames(c) ==
  LET names == ToSet(c.names) \cup {x \in ToSet(c.altNames) : x[1] \in c.truncated}
  IN names \cup IF \E n \in names : n[1] = "dns" THEN {} ELSE {<<"dns", CommonName(c.subj)>>}

ValidateNameConstraintsFromIssuer(c, issuer, isLeaf) ==
  \/ ~issuer.constrained
  \/ ~isLeaf /\ IsSelfIssued(c)
  \/ /\ ValidateDirectoryNameAgainstConstraints(c, issuer)
     /\ \A n \in CvConstrainedNames(c) :
          IF n[1] = "dns" THEN ValidateDnsNameAgainstConstraints(n[2], issuer)
          ELSE ValidateIpAddressAgainstConstraints(n[2], issuer)

ValidateNameConstraints(path) ==
  \A i \in DOMAIN path : \A j \in 1 .. i - 1 :
    ValidateNameConstraintsFromIssuer(path[j], path[i], j = 1)

CertificatePoliciesIntersect(a, b) ==
  ((ToSet(a.policies) \cap ToSet(b.policies)) \ {"any"}) # {}

ValidateCertificatePolicyTree(path) ==
  LET leaf == path[1]
      any(c) == "any" \in ToSet(c.policies)
  IN \A i \in 2 .. Len(path) :
       /\ path[i].explicit = 0 => leaf.hasPolicies
       /\ path[i].inhibitAny = 0 => ~(any(leaf) /\ ToSet(leaf.policies) = {"any"})
       /\ \/ ~path[i].policiesCritical \/ ~leaf.hasPolicies \/ any(path[i]) \/ any(leaf)
          \/ CertificatePoliciesIntersect(path[i], leaf)

(* The link from path[i] to its issuer. *)
ValidateLink(path, i) ==
  /\ CertificateIssuerMatches(path[i], path[i + 1])
  /\ CvMayCertify(path[i + 1])
  /\ \/ path[i + 1].pathLen < 0
     \/ CountSubordinateCaCertificates(path, i + 1) <= path[i + 1].pathLen
  /\ VerifyCertificateSignature(path[i], path[i + 1]) = "ok"

(* Everything between the path search and the anchor. *)
ValidatePath(path) ==
  /\ ValidateNameConstraints(path)
  /\ ValidateCertificatePolicyTree(path)
  /\ \A i \in DOMAIN path : path[i].notBefore <= Now /\ Now <= path[i].notAfter
  /\ path[1].hasEku /\ "serverAuth" \in path[1].eku
  /\ ~(path[1].hasBasic /\ path[1].isCa)
  /\ path[1].hasUsage /\ "digitalSignature" \in path[1].usage
  /\ ValidateHostName(path[1], CvHost)
  /\ \A i \in 1 .. Len(path) - 1 : ValidateLink(path, i)
  /\ MatchesPin(CvTrust(cvIn.trust), path[1].key)
----------------------------------------
(* Revocation evidence, as its makers write it.  c and issuer are what the   *)
(* issuers meant.                                                           *)

CvSingle(c, issuer, status, until) ==
  [name |-> issuer.subj, key |-> issuer.key, serial |-> c.serial, status |-> status,
   this |-> 2025, next |-> until]

CvOcsp(kind, c, issuer) ==
  LET answer == CASE kind = "revoked" -> CvSingle(c, issuer, "revoked", 2027)
                  [] kind = "unknown" -> CvSingle(c, issuer, "unknown", 2027)
                  [] kind = "stale"   -> CvSingle(c, issuer, "good", 2025)
                  [] kind = "nonext"  -> CvSingle(c, issuer, "good", 0)
                  [] OTHER            -> CvSingle(c, issuer, "good", 2027)
      other  == [CvSingle(c, issuer, "revoked", 2027) EXCEPT !.serial = "another"]
      delegate == IF kind = "noeku" THEN CvWith(CvCert("responder"), "client")
                  ELSE CvCert("responder")
  IN [src |-> "ocsp", issuer |-> c.iss, serial |-> c.serial, produced |-> 2025,
      successful |-> kind # "trylater",
      responder |-> IF kind \in {"delegated", "noeku"} THEN <<"name", "Responder">>
                    ELSE IF kind = "keyid" THEN <<"key", issuer.key>> ELSE <<"name", issuer.subj>>,
      signer |-> CASE kind = "forged" -> "kForged"
                   [] kind \in {"delegated", "noeku"} -> "kResponder"
                   [] OTHER -> issuer.key,
      certs |-> IF kind \in {"delegated", "noeku"} THEN <<CvEncode(delegate)>> ELSE <<>>,
      singles |-> IF kind = "another" THEN <<other>> ELSE <<other, answer>>]

CvCrl(kind, c, issuer) ==
  [src |-> "crl", issuer |-> c.iss, serial |-> c.serial, name |-> issuer.subj,
   this |-> 2025, next |-> IF kind = "stale" THEN 2025 ELSE 2027,
   signer |-> IF kind = "forged" THEN "kForged" ELSE issuer.key,
   revoked |-> IF kind = "revoked" THEN {c.serial, "another"} ELSE {"another"}]
----------------------------------------
(* ... and as the validator reads it. *)

VerifySignedData(signer, c) ==
  VerifyCertificateSignature([CvBlank EXCEPT !.alg = "ecdsa", !.sig = signer], c) = "ok"

ResponderIdMatchesCertificate(id, c) ==
  IF id[1] = "name" THEN id[2] = c.subj ELSE id[2] = c.key

VerifyOcspResponderSignature(e, issuer) ==
  IF ResponderIdMatchesCertificate(e.responder, issuer) THEN VerifySignedData(e.signer, issuer)
  ELSE \E i \in DOMAIN e.certs :
         LET r == CvParseCertificate(e.certs[i]) IN
         /\ \A j \in 1 .. i : CvParseCertificate(e.certs[j]).st = "ok"
         /\ \A j \in 1 .. i - 1 :
              ~ResponderIdMatchesCertificate(e.responder, CvParseCertificate(e.certs[j]))
         /\ ResponderIdMatchesCertificate(e.responder, r)
         /\ r.notBefore <= Now /\ Now <= r.notAfter
         /\ CertificateIssuerMatches(r, issuer)
         /\ r.hasEku /\ "OCSPSigning" \in r.eku
         /\ r.hasUsage => "digitalSignature" \in r.usage
         /\ VerifyCertificateSignature(r, issuer) = "ok"
         /\ VerifySignedData(e.signer, r)

ParseOcspCertIdMatches(s, c, issuer) ==
  s.name = issuer.subj /\ s.key = issuer.key /\ s.serial = c.serial

(* The first answer about this certificate decides. *)
ParseOcspSingleResponses(e, c, issuer) ==
  LET mine == SelectSeq(e.singles, LAMBDA s : ParseOcspCertIdMatches(s, c, issuer))
  IN /\ mine # <<>>
     /\ mine[1].status = "good"
     /\ mine[1].next # 0 /\ mine[1].this <= Now /\ Now <= mine[1].next

ValidateOcspEvidence(e, c, issuer) ==
  /\ e.successful
  /\ e.produced <= Now
  /\ VerifyOcspResponderSignature(e, issuer)
  /\ ParseOcspSingleResponses(e, c, issuer)

ValidateCrlEvidence(e, c, issuer) ==
  /\ issuer.hasUsage /\ "crlSign" \in issuer.usage
  /\ e.name = issuer.subj
  /\ e.this <= Now /\ Now <= e.next
  /\ VerifySignedData(e.signer, issuer)
  /\ c.serial \notin e.revoked

ValidateRevocationEntryEvidence(e, c, issuer) ==
  /\ e.issuer = c.iss /\ e.serial = c.serial
  /\ IF e.src = "ocsp" THEN ValidateOcspEvidence(e, c, issuer) ELSE ValidateCrlEvidence(e, c, issuer)

(* The evidence that lies at a place for the certificate with this serial,   *)
(* as a sequence of at most one entry.                                       *)
CvIntent(serial) == CHOOSE c \in ToSet(cvIn.chain) : c.serial = serial

CvIssuerOf(c) == CASE c.iss = "CA" -> CvCert("ca") [] OTHER -> CvCert("root")

CvEvidenceAt(place, serial) ==
  LET c == CvIntent(serial)
      w == cvIn.evidence[serial]
  IN IF serial \notin DOMAIN cvIn.evidence \/ w.place # place THEN <<>>
     ELSE <<IF place \in {"entry-crl", "provider-crl"} THEN CvCrl(w.kind, c, CvIssuerOf(c))
            ELSE CvOcsp(w.kind, c, CvIssuerOf(c))>>

FindRevocationEntry(c, source) == CvEvidenceAt(IF source = "ocsp" THEN "entry-ocsp" ELSE "entry-crl", c.serial)

(* QueryAndValidateRevocationProvider asks the caller's provider.            *)
QueryRevocationProvider(c, source) == 
  CvEvidenceAt(IF source = "ocsp" THEN "provider-ocsp" ELSE "provider-crl", c.serial)

SelectRevocationIssuer(path, i, anchorIndex, anchor) ==
  IF i < Len(path) THEN <<path[i + 1]>>
  ELSE IF anchor # <<>> /\ anchorIndex = i /\ CertificateIssuerMatches(path[i], anchor[1]) THEN anchor
  ELSE IF IsSelfIssued(path[i]) THEN <<path[i]>>
  ELSE <<>>

(* The places consulted for path[i], in order; the first that has evidence   *)
(* decides, and none at all is a failure.                                    *)
RevocationSources(c, i) ==
  (IF i = 1 THEN CvEvidenceAt("stapled", c.serial) ELSE <<>>)
    \o FindRevocationEntry(c, "ocsp") \o QueryRevocationProvider(c, "ocsp")
    \o (IF cvIn.mode = "online" THEN FindRevocationEntry(c, "crl") \o QueryRevocationProvider(c, "crl")
        ELSE <<>>)
----------------------------------------
(* The calls a client may make: a cast in some order with at most one        *)
(* unusual certificate and no revocation check, or the plain chain with       *)
(* evidence of some kind at some place for one certificate and a good answer  *)
(* for the others.                                                           *)
CvOrders(cast) == UNION {SetToSeqs(s) : s \in SUBSET cast \ {{}}}

CvHostText(h) == CASE h = "www" -> <<"dns", <<"www", "site">>>>
                   [] h = "7"   -> <<"ip", 7>>
                   [] OTHER     -> <<"dns", <<"u-www", "site">>>>

CvPathCall ==
  \E cast \in CvCasts : \E o \in CvOrders(cast), t \in CvTrusts, f \in CvFaults, h \in CvHosts :
  \E k \in DOMAIN o :
    cvIn = [chain |-> [i \in DOMAIN o |-> IF i = k THEN CvWith(CvCert(o[i]), f) ELSE CvCert(o[i])],
            host |-> CvHostText(h), idna |-> h # "u-noidna", trust |-> t, mode |-> "off",
            evidence |-> <<>>]

CvRevocationCall ==
  \E names \in {<<"site", "ca">>, <<"site", "ca", "root">>}, m \in {"ocsp", "online"},
     s \in {"site", "ca", "root"}, p \in CvPlaces, q \in CvPlaces, k \in CvEvidence :
    cvIn = [chain |-> [i \in DOMAIN names |-> CvCert(names[i])], host |-> CvHostText("www"),
            idna |-> TRUE, trust |-> IF Len(names) = 2 THEN "bundle" ELSE "root", mode |-> m,
            evidence |-> [x \in {"site", "ca", "root"} |->
                            IF x = s THEN [place |-> p, kind |-> k]
                            ELSE [place |-> q, kind |-> "good"]]]

CvInit ==
  /\ (CvPathCall \/ CvRevocationCall)
  /\ cvPc = "parse"
  /\ cvCerts = <<>>
  /\ cvLeaf = [pass |-> 0, index |-> 1]
  /\ cvPath = <<>>
  /\ cvFrames = <<>>
  /\ cvUsed = {}
  /\ cvAnchor = <<>>
  /\ cvIndex = 1
  /\ cvVerdict = "none"

CvRefuse(st) == cvPc' = "done" /\ cvVerdict' = st

(* Parse every presented certificate and normalise the host; one malformed   *)
(* certificate fails all.                                                    *)
ParseChain ==
  /\ cvPc = "parse"
  /\ cvCerts' = [i \in DOMAIN cvIn.chain |-> CvParseCertificate(CvEncode(cvIn.chain[i]))]
  /\ IF ~CvHostFails /\ \A i \in DOMAIN cvCerts' : cvCerts'[i].st = "ok"
     THEN cvPc' = "leaf" /\ UNCHANGED cvVerdict
     ELSE CvRefuse("malformed")
  /\ UNCHANGED <<cvIn, cvLeaf, cvPath, cvFrames, cvUsed, cvAnchor, cvIndex>>

CvNewFrame == [priority |-> 2, next |-> 1]

CvNextLeaf == IF cvLeaf.index < Len(cvCerts) THEN [cvLeaf EXCEPT !.index = @ + 1]
              ELSE [pass |-> cvLeaf.pass + 1, index |-> 1]

(* A leaf is a certificate that issues none of the others; the first pass     *)
(* takes only those that name the host.                                      *)
TryLeaf ==
  /\ cvPc = "leaf"
  /\ cvLeaf.pass < 2
  /\ IF \/ CertificateIssuesAny(cvCerts, cvLeaf.index)
        \/ cvLeaf.pass = 0 /\ ~ValidateHostName(cvCerts[cvLeaf.index], CvHost)
     THEN cvLeaf' = CvNextLeaf /\ UNCHANGED <<cvPc, cvPath, cvFrames, cvUsed>>
     ELSE /\ cvPc' = "search"
          /\ cvPath' = <<cvLeaf.index>>
          /\ cvFrames' = <<CvNewFrame>>
          /\ cvUsed' = {cvLeaf.index}
          /\ UNCHANGED cvLeaf
  /\ UNCHANGED <<cvIn, cvCerts, cvAnchor, cvIndex, cvVerdict>>

NoLeafLeft ==
  /\ cvPc = "leaf" /\ cvLeaf.pass = 2
  /\ CvRefuse("untrusted")
  /\ UNCHANGED <<cvIn, cvCerts, cvLeaf, cvPath, cvFrames, cvUsed, cvAnchor, cvIndex>>

(* The candidates the frame still has, in the order they are tried.           *)
CvCandidates(frame) ==
  LET n == Len(cvCerts)
      at(p, from) == [i \in 1 .. n + 1 - from |-> [priority |-> p, index |-> from + i - 1]]
  IN CASE frame.priority = 2 -> at(2, frame.next) \o at(1, 1)
       [] frame.priority = 1 -> at(1, frame.next)
       [] OTHER -> <<>>

CvTried(c) == CertificateCanIssueForPath(cvCerts[Last(cvPath)], cvCerts[c.index], c.priority)

CvStops(c) == c.index \notin cvUsed /\ (CvTried(c).matches \/ CvTried(c).st # "ok")

(* Leave the last certificate of the path; without one left, the leaf is      *)
(* given up.                                                                 *)
BackOut ==
  /\ cvUsed' = cvUsed \ {Last(cvPath)}
  /\ IF Len(cvPath) = 1
     THEN cvPc' = "leaf" /\ cvLeaf' = CvNextLeaf /\ UNCHANGED <<cvPath, cvFrames>>
     ELSE cvPath' = Front(cvPath) /\ cvFrames' = Front(cvFrames) /\ UNCHANGED <<cvPc, cvLeaf>>

(* One turn of the search: stop at a trusted end, go on to the next issuer,   *)
(* or back out.                                                              *)
BuildCertificatePath ==
  /\ cvPc = "search"
  /\ LET end   == PathEndsAtTrustedAnchor
         cands == CvCandidates(Last(cvFrames))
         stops == {i \in DOMAIN cands : CvStops(cands[i])}
         first == cands[CHOOSE i \in stops : \A j \in stops : i <= j]
     IN /\ cvAnchor' = end.anchor
        /\ CASE end.st # "ok" ->
                  CvRefuse(end.st) /\ UNCHANGED <<cvCerts, cvLeaf, cvPath, cvFrames, cvUsed>>
             [] end.st = "ok" /\ end.trusted ->
                  /\ cvCerts' = [i \in DOMAIN cvPath |-> cvCerts[cvPath[i]]]
                  /\ cvPc' = "checks"
                  /\ UNCHANGED <<cvLeaf, cvPath, cvFrames, cvUsed, cvVerdict>>
             [] end.st = "ok" /\ ~end.trusted /\ stops # {} /\ CvTried(first).st # "ok" ->
                  CvRefuse("unsupported") /\ UNCHANGED <<cvCerts, cvLeaf, cvPath, cvFrames, cvUsed>>
             [] /\ end.st = "ok" /\ ~end.trusted /\ stops # {} /\ CvTried(first).st = "ok"
                /\ Len(cvPath) < CvMaxChain ->
                  /\ cvPath' = Append(cvPath, first.index)
                  /\ cvUsed' = cvUsed \cup {first.index}
                  /\ cvFrames' = Append([cvFrames EXCEPT ![Len(cvFrames)] =
                                           [priority |-> first.priority, next |-> first.index + 1]],
                                        CvNewFrame)
                  /\ UNCHANGED <<cvCerts, cvLeaf, cvPc, cvVerdict>>
             [] OTHER -> BackOut /\ UNCHANGED <<cvCerts, cvVerdict>>
  /\ UNCHANGED <<cvIn, cvIndex>>

(* The checks on the path found, its anchor, and the signature of a lone      *)
(* certificate that is its own anchor.                                       *)
ValidateChain ==
  /\ cvPc = "checks"
  /\ LET found == FindTrustedAnchor(CvTrust(cvIn.trust), cvCerts, cvAnchor)
     IN /\ cvAnchor' = found.anchor
        /\ IF /\ ValidatePath(cvCerts)
              /\ found.st = "ok" /\ found.trusted
              /\ (found.index = 1 /\ Len(cvCerts) = 1 /\ IsSelfIssued(cvCerts[1])) =>
                    VerifyCertificateSignature(cvCerts[1], cvCerts[1]) = "ok"
           THEN IF cvIn.mode = "off"
                THEN cvPc' = "done" /\ cvVerdict' = "accepted"
                ELSE cvPc' = "revocation" /\ UNCHANGED cvVerdict
           ELSE CvRefuse("untrusted")
        /\ cvLeaf' = [cvLeaf EXCEPT !.index = found.index]
  /\ UNCHANGED <<cvIn, cvCerts, cvPath, cvFrames, cvUsed, cvIndex>>

(* One certificate of the revocation loop; cvLeaf.index holds the anchor's    *)
(* index from the checks on.                                                 *)
ValidateCertificateRevocation ==
  /\ cvPc = "revocation"
  /\ LET c       == cvCerts[cvIndex]
         issuer  == SelectRevocationIssuer(cvCerts, cvIndex, cvLeaf.index, cvAnchor)
         sources == RevocationSources(c, cvIndex)
     IN IF /\ issuer # <<>> /\ sources # <<>>
           /\ ValidateRevocationEntryEvidence(sources[1], c, issuer[1])
        THEN IF cvIndex = cvLeaf.index
             THEN cvPc' = "done" /\ cvVerdict' = "accepted" /\ UNCHANGED cvIndex
             ELSE cvIndex' = cvIndex + 1 /\ UNCHANGED <<cvPc, cvVerdict>>
        ELSE CvRefuse("untrusted") /\ UNCHANGED cvIndex
  /\ UNCHANGED <<cvIn, cvCerts, cvLeaf, cvPath, cvFrames, cvUsed, cvAnchor>>

CvNext == \/ ParseChain \/ TryLeaf \/ NoLeafLeft \/ BuildCertificatePath
          \/ ValidateChain \/ ValidateCertificateRevocation

CvSpec == CvInit /\ [][CvNext]_cvVars
----------------------------------------
(* What a chain ought to be, in terms of what the issuers meant. *)

RefHost == IF cvIn.host = CvHostText("u-www") THEN <<"dns", <<"xn--www", "site">>>> ELSE cvIn.host

RefNamed(c) ==
  \E i \in DOMAIN c.names :
    \/ c.names[i] = RefHost
    \/ /\ c.names[i][1] = "dns" /\ RefHost[1] = "dns" /\ c.names[i][2][1] = "*"
       /\ Tail(c.names[i][2]) = Tail(RefHost[2])

RefWithin(name, subtree) ==
  \E k \in 0 .. Len(name) : /\ SubSeq(name, k + 1, Len(name)) = subtree.base
                            /\ subtree.dot => k > 0

(* c's subject and names satisfy the constraints of an issuer above it. *)
RefConstrained(c, issuer) ==
  LET all  == {<<"directory", c.subj>>} \cup ToSet(c.names)
      hit(n, s) == CASE n[1] = "dns" -> RefWithin(n[2], s[2])
                     [] n[1] = "ip"  -> n[2] \in s[2]
                     [] OTHER        -> n[2] = s[2]
      of(n, list) == {s \in ToSet(list) : s[1] = n[1]}
  IN \A n \in all : /\ \A s \in of(n, issuer.excluded) : ~hit(n, s)
                   /\ \/ of(n, issuer.permitted) = {}
                      \/ \E s \in of(n, issuer.permitted) : hit(n, s)

RefIssued(c, issuer) ==
  c.iss = issuer.subj /\ c.by = issuer.key /\ issuer.ca /\ "keyCertSign" \in issuer.use

(* The trusted key certifies c, or is c's own. *)
RefAnchored(p) ==
  LET c     == Last(p)
      below == Cardinality({i \in 2 .. Len(p) : p[i].ca /\ p[i].subj # p[i].iss})
      root(l) == \/ c.subj = "Root" /\ c.key = "kRoot"
                 \/ c.iss = "Root" /\ c.by = "kRoot" /\ (l < 0 \/ below <= l)
  IN CASE cvIn.trust = "bundle" -> root(-1)
       [] cvIn.trust = "short"  -> root(0)
       [] cvIn.trust = "ca"     -> c.subj = "CA" /\ c.key = "kCA"
       [] cvIn.trust = "site"   -> c.subj = "Site" /\ c.key = "kSite"
       [] OTHER                 -> c.subj = "Root" /\ c.key = "kRoot"

RefSane(c) == /\ c.form \notin {"critical", "twice", "short"}
              /\ \A s \in ToSet(c.excluded \o c.permitted) : s[1] # "email"
              /\ c.len >= 0 => c.ca

RefChains ==
  {[i \in DOMAIN s |-> cvIn.chain[s[i]]] : s \in UNION {SetToSeqs(t) : t \in SUBSET DOMAIN cvIn.chain \ {{}}}}

(* A chain of signatures from a certificate for this host to an anchor, and   *)
(* no shorter one on the way.                                                *)
RefReaches(p) ==
  /\ RefNamed(p[1])
  /\ \A i \in 1 .. Len(p) - 1 : RefIssued(p[i], p[i + 1]) /\ p[i].alg = "ecdsa"
  /\ RefAnchored(p)
  /\ \A k \in 1 .. Len(p) - 1 : ~RefAnchored(SubSeq(p, 1, k))

(* ... every certificate of which stands up on its own and below the others.  *)
RefSound(p) ==
  /\ \A i \in DOMAIN p : /\ RefSane(p[i])
                         /\ p[i].from <= Now /\ Now <= p[i].to
                         /\ i > 1 /\ p[i].len >= 0 =>
                              Cardinality({j \in 2 .. i - 1 : p[j].ca /\ p[j].subj # p[j].iss}) <= p[i].len
                         /\ \A j \in 1 .. i - 1 :
                              (j = 1 \/ p[j].subj # p[j].iss) => RefConstrained(p[j], p[i])
                         /\ i > 1 /\ p[i].explicit => p[1].policies # <<>>
  /\ ~p[1].ca /\ "digitalSignature" \in p[1].use /\ "serverAuth" \in ToSet(p[1].eku)
  /\ Len(p) = 1 /\ p[1].subj = p[1].iss => p[1].by = p[1].key /\ p[1].alg = "ecdsa"
  /\ cvIn.trust = "pinned" => p[1].key = "kPinned"
  /\ cvIn.trust = "site" => p[1].key = "kSite"

RefGoodAt(c, i, kind, place) ==
  /\ \/ kind \in {"good", "keyid"}
     \/ kind = "delegated" /\ (place \in {"entry-crl", "provider-crl"} \/ c.iss = "CA")
     \/ place \in {"entry-crl", "provider-crl"} /\ kind \in {"unknown", "nonext", "noeku", "another", "trylater"}
  /\ place # "nowhere" /\ (place = "stapled" => i = 1)
  /\ place \in {"entry-crl", "provider-crl"} => cvIn.mode = "online"

RefUnrevoked(p) ==
  cvIn.mode # "off" =>
    \A i \in DOMAIN p :
      LET e == cvIn.evidence[p[i].serial] IN RefGoodAt(p[i], i, e.kind, e.place)

(* No list of constraints is longer than the validator keeps. *)
RefKept(c) ==
  \A list \in {c.permitted, c.excluded}, kind \in {"dns", "ip", "directory"} :
    Len(SelectSeq(list, LAMBDA s : s[1] = kind)) <= CvMaxConstraints

(* A certificate without a DNS name whose common name, taken for one, an issuer *)
(* above it would not permit.                                                *)
RefCommonNameStops(p) ==
  \E i \in DOMAIN p : \E j \in 1 .. i - 1 :
    /\ j = 1 \/ p[j].subj # p[j].iss
    /\ \A n \in ToSet(p[j].names) : n[1] # "dns"
    /\ ~RefConstrained([p[j] EXCEPT !.names = <<<<"dns", CommonName(p[j].subj)>>>>], p[i])

RefReaching == {p \in RefChains : RefReaches(p)}

RefAllSound ==
  /\ RefReaching # {} /\ \A p \in RefReaching : RefSound(p) /\ RefUnrevoked(p)
  /\ ~(cvIn.host = CvHostText("u-www") /\ ~cvIn.idna)
  /\ \A i \in DOMAIN cvIn.chain : RefSane(cvIn.chain[i]) /\ cvIn.chain[i].alg = "ecdsa"

RefAllKept == \A i \in DOMAIN cvIn.chain : RefKept(cvIn.chain[i])

(* An accepted chain holds a path from a certificate for the host to an       *)
(* anchor that is sound as its issuers meant it and not revoked; and a chain   *)
(* that can be read, all of whose paths to an anchor are sound, is accepted,  *)
(* whatever order the server sent it in: parsing, search with backing out,     *)
(* checks and evidence of CertificateValidator::ValidateChain together.  Both  *)
(* within the constraints the validator keeps; and it refuses more where a     *)
(* common name stands in for DNS names.                                      *)
ChainIsJudgedAsIssued ==
  cvPc = "done" /\ RefAllKept =>
    /\ cvVerdict = "accepted" => \E p \in RefReaching : RefSound(p) /\ RefUnrevoked(p)
    /\ RefAllSound /\ (\A p \in RefReaching : ~RefCommonNameStops(p)) => cvVerdict = "accepted"

(* No constraint is dropped (CertificateValidator.cpp:1045, :1069, :1102).  The *)
(* code does not keep this.                                                  *)
EveryConstraintBinds ==
  cvVerdict = "accepted" => \E p \in RefReaching : RefSound(p) /\ RefUnrevoked(p)

(* An authority needs no DNS name below an issuer that constrains DNS names    *)
(* (CertificateValidator.cpp:3669-3677).  The code does not keep this.        *)
AuthoritiesNeedNoDnsName == cvPc = "done" /\ RefAllKept /\ RefAllSound => cvVerdict = "accepted"
=============================================================================
