----------------------------- MODULE CliVerify -----------------------------
(***************************************************************************)
(* The chain verifier (sdk-typescript/src/governance/verify-chain.ts): one *)
(* pass over the events of a session that reports every break, the signed  *)
(* gap markers of the verified prefix, and the device seals seen; the      *)
(* preimage a signature covers, by signing format                          *)
(* (sdk-typescript/src/proxy/chain-format.ts); and obsvr-verify            *)
(* (sdk-typescript/src/cli-verify.ts), which splits a bundle of events by  *)
(* session, sorts each session by seq_no, and has either the keyed tier    *)
(* (verifyAuditChain) or the keyless structural tier judge it.             *)
(*                                                                         *)
(* A digest is its own preimage: SHA-256 and HMAC are taken as injective.  *)
(* Prompts and responses are sequences of tokens, a length is one token.   *)
(* The signed fields are grouped as the formats introduced them: verdict   *)
(* stands for the eight fields of format 3, class for operation, source    *)
(* and event_type (format 4), lineage for source_lineage_hash (format 5).  *)
(*                                                                         *)
(* The fields of a preimage are joined by a separator, and the verifier    *)
(* does not ask whether sdk_session_id or prev_sig contains one.  So a     *)
(* preimage is the sequence of parts between the separators, of which such *)
(* a text may contribute several, and spell a number or a digest.  The     *)
(* type of an event gives it a number for seq_no and timestamp_sdk.        *)
(*                                                                         *)
(* Positions count from 1.  A break is known by its position; the wording  *)
(* of its reason is left out.  An absent number is the sentinel below.     *)
(***************************************************************************)
EXTENDS Integers, Sequences, FiniteSetsExt

----------------------------------------------------------------------------
(* The signed preimage.                                                    *)

CHAIN_FORMATS_SUPPORTED == 1..5
CHAIN_FORMAT_CURRENT == 5

\* What stands between two separators: a number, a text, or a digest.
Numeral(n) == <<"numeral", n>>
Text(t) == <<"text", t>>
ContentDigest(tokens) == <<"content", tokens>>
DecisionDigest(fields) == <<"decision", fields>>

CONSTANT PartsOf(_)   \* the parts the separators in a text cut it into

\* An absent prev_sig enters the preimage as the empty string.
NoPrev == 0

\* The domain tag of a framed content preimage is a token of its own.
CONTENT_HASH_DOMAIN_TAG == 100
Framed(text) == <<Len(text)>> \o text

\* Variant: no format frames the fields.
UnframedHash(format, e) == e.prompt \o e.response

\* Format 1 hashed the bare concatenation; later formats frame each field.
ContentHash(format, e) ==
  IF format = 1 THEN e.prompt \o e.response
  ELSE <<CONTENT_HASH_DOMAIN_TAG>> \o Framed(e.prompt) \o Framed(e.response)

\* The decision fields, framed, in the order and number the format signs.
DecisionHash(format, e) ==
  <<e.verdict>> \o (IF format >= 4 THEN <<e.class>> ELSE <<>>)
                \o (IF format >= 5 THEN <<e.lineage>> ELSE <<>>)

\* From format 2 on the format number leads; from 3 on the decision is signed.
SignaturePayload(format, e) ==
  (IF format = 1 THEN <<>> ELSE <<Numeral(format)>>)
    \o PartsOf(e.sdk_session_id)
    \o <<Numeral(e.seq_no), Numeral(e.timestamp_sdk), ContentDigest(ContentHash(format, e))>>
    \o (IF format >= 3 THEN <<DecisionDigest(DecisionHash(format, e))>> ELSE <<>>)
    \o PartsOf(e.prev_sig)

----------------------------------------------------------------------------
(* The verifier.                                                           *)

CONSTANT Hmac(_)   \* the signature a payload has under the signing key

\* How the verifier is called: with an apiKey or not, and with which pinned
\* device keys.  Neither is refused.
Modes(keyIds) == {mode \in [keyed : BOOLEAN, pinned : SUBSET keyIds] :
                    mode.keyed \/ mode.pinned # {}}

NoSeq == -1      \* absent or unusable seq_no
NoSig == -1      \* absent sdk_sig; never equal to a prev_sig
NoTime == -1     \* absent timestamp_sdk
NoSeal == 0      \* absent device_sig
NoFormat == 0    \* absent chain_format: the format that had no such field

\* An event the SDK signed as a marker, and the loss it declares.  A marker's
\* prompt is the fixed claim text, here token 0, followed by the count.
AUDIT_GAP_OPERATION == "audit.gap"

\* Variant: any event that quotes a claim is a marker.
QuotesClaim(e) == Len(e.prompt) = 2 /\ e.prompt[1] = 0

IsAuditGap(e) ==
  /\ e.class = AUDIT_GAP_OPERATION
  /\ Len(e.prompt) = 2
  /\ e.prompt[1] = 0
Dropped(e) == e.prompt[2]

DeclaredFormat(e) == IF e.chain_format = NoFormat THEN 1 ELSE e.chain_format
Supported(e) == DeclaredFormat(e) \in CHAIN_FORMATS_SUPPORTED

\* The payload recomputed under the chain's format; a missing timestamp is 0.
Payload(format, e) ==
  SignaturePayload(format, IF e.timestamp_sdk = NoTime
                             THEN [e EXCEPT !.timestamp_sdk = 0] ELSE e)

\* Variant: the first event too must follow the initial state.
ContinuesFromZero(st, i, e) ==
  /\ e.seq_no # NoSeq
  /\ st.lastSeq # NoSeq => e.seq_no = st.lastSeq + 1
  /\ e.timestamp_sdk # NoTime => e.timestamp_sdk >= st.lastTimestamp
  /\ i > 1 => e.prev_sig = st.lastSig

\* Event e at position i continues the state st the scan has reached.
Continues(st, i, e) ==
  /\ e.seq_no # NoSeq
  /\ IF i = 1 THEN e.seq_no >= 1
              ELSE st.lastSeq # NoSeq => e.seq_no = st.lastSeq + 1
  /\ e.timestamp_sdk # NoTime => e.timestamp_sdk >= st.lastTimestamp
  /\ i > 1 => e.prev_sig = st.lastSig

SignatureMatches(mode, format, e) == mode.keyed => Hmac(Payload(format, e)) = e.sdk_sig

\* The device seal covers the payload the HMAC covers, under a pinned key.
SealMatches(mode, format, e) ==
  mode.pinned # {} => /\ e.device_sig # NoSeal
                      /\ e.device_key_id \in mode.pinned
                      /\ e.device_sig = Hmac(Payload(format, e))

Start == [lastSeq |-> 0, lastSig |-> NoSig, lastTimestamp |-> 0, breaks |-> {},
          gapMarkers |-> 0, eventsDeclaredLost |-> 0, deviceSignedEvents |-> 0]

\* Variant: a break does not re-anchor the scan.
ScanUnanchored(st, i, e, first, mode) ==
  IF e.sdk_session_id # first.sdk_session_id \/ ~Continues(st, i, e)
    THEN [st EXCEPT !.breaks = @ \cup {i}]
    ELSE [st EXCEPT !.lastSeq = e.seq_no, !.lastSig = e.sdk_sig,
                    !.lastTimestamp = e.timestamp_sdk]

\* A foreign event is reported and skipped.  Any other event becomes the
\* anchor of the next one, by its own claims, whether or not it broke.
Scan(st, i, e, first, mode) ==
  IF e.sdk_session_id # first.sdk_session_id
    THEN [st EXCEPT !.breaks = @ \cup {i}]
    ELSE LET format == DeclaredFormat(first)
             chained == /\ DeclaredFormat(e) = format
                        /\ Continues(st, i, e)
                        /\ SignatureMatches(mode, format, e)
             broken == IF chained /\ SealMatches(mode, format, e) THEN {} ELSE {i}
             tallied == st.breaks \cup broken = {} /\ IsAuditGap(e)
         IN [lastSeq |-> e.seq_no,
             lastSig |-> e.sdk_sig,
             lastTimestamp |-> IF e.timestamp_sdk = NoTime THEN st.lastTimestamp
                                                           ELSE e.timestamp_sdk,
             breaks |-> st.breaks \cup broken,
             gapMarkers |-> st.gapMarkers + (IF tallied THEN 1 ELSE 0),
             eventsDeclaredLost |-> st.eventsDeclaredLost + (IF tallied THEN Dropped(e) ELSE 0),
             deviceSignedEvents |-> st.deviceSignedEvents
                                      + (IF chained /\ e.device_sig # NoSeal THEN 1 ELSE 0)]

\* The scan state after each prefix of the events.
Scanned(events, mode) ==
  LET after[i \in 0..Len(events)] ==
        IF i = 0 THEN Start ELSE Scan(after[i - 1], i, events[i], events[1], mode)
  IN after[Len(events)]

\* verifyAuditChain: an unsupported first format ends the run before the scan.
VerifyAuditChain(events, mode) ==
  LET st == IF events = <<>> THEN Start
            ELSE IF ~Supported(events[1]) THEN [Start EXCEPT !.breaks = {1}]
            ELSE Scanned(events, mode)
  IN [valid |-> st.breaks = {},
      breaks |-> st.breaks,
      eventsVerified |-> IF st.breaks = {} THEN Len(events)
                         ELSE (CHOOSE i \in st.breaks : \A j \in st.breaks : i <= j) - 1,
      gapMarkers |-> st.gapMarkers,
      eventsDeclaredLost |-> st.eventsDeclaredLost,
      deviceSignedEvents |-> st.deviceSignedEvents]

----------------------------------------------------------------------------
(* The command.                                                            *)

CONSTANT allowGaps   \* --allow-gaps was passed

EXIT_INCOMPLETE == 3

SessionsOf(bundle) == {bundle[i].sdk_session_id : i \in DOMAIN bundle}

\* What the comparisons read for an absent number.
SeqKey(e) == IF e.seq_no = NoSeq THEN 0 ELSE e.seq_no
TimeKey(e) == IF e.timestamp_sdk = NoTime THEN 0 ELSE e.timestamp_sdk

\* The elements of a finite set in the strict total order precedes.
Ranked(S, precedes(_, _)) ==
  [k \in 1..Cardinality(S) |->
     CHOOSE x \in S : Cardinality({y \in S : precedes(y, x)}) = k - 1]

\* The session's events in a stable sort by seq_no.
SessionEvents(bundle, sid) ==
  LET mine == {i \in DOMAIN bundle : bundle[i].sdk_session_id = sid}
      order == Ranked(mine, LAMBDA a, b :
                 \/ SeqKey(bundle[a]) < SeqKey(bundle[b])
                 \/ SeqKey(bundle[a]) = SeqKey(bundle[b]) /\ a < b)
  IN [k \in DOMAIN order |-> bundle[order[k]]]

ExitCode(valid, gapMarkers) ==
  IF ~valid THEN 1
  ELSE IF gapMarkers = 0 \/ allowGaps THEN 0 ELSE EXIT_INCOMPLETE

\* The keyed or device tier: every session valid, tallies summed over the sessions.
KeyedReport(bundle, mode) ==
  LET results == [sid \in SessionsOf(bundle) |-> VerifyAuditChain(SessionEvents(bundle, sid), mode)]
      valid == \A sid \in DOMAIN results : results[sid].valid
      markers == MapThenSumSet(LAMBDA sid : results[sid].gapMarkers, DOMAIN results)
  IN [valid |-> valid,
      eventsDeclaredLost |->
        MapThenSumSet(LAMBDA sid : results[sid].eventsDeclaredLost, DOMAIN results),
      exitCode |-> ExitCode(valid, markers)]

\* Variant: the first event must link to a predecessor too.
LinkAlwaysRequired(sorted) == \A i \in DOMAIN sorted : sorted[i].prev_sig # NoPrev

\* The structural checks for one chain: it starts at 1, and every later event
\* continues and links to the one before it under the same format.
VerifySessionStructure(sorted) ==
  \A i \in DOMAIN sorted :
    /\ sorted[i].sdk_sig # NoSig
    /\ IF i = 1 THEN sorted[1].seq_no = 1
       ELSE /\ SeqKey(sorted[i]) = SeqKey(sorted[i - 1]) + 1
            /\ sorted[i].prev_sig # NoPrev
            /\ sorted[i].prev_sig = sorted[i - 1].sdk_sig
            /\ TimeKey(sorted[i]) >= TimeKey(sorted[i - 1])
            /\ sorted[i].chain_format = sorted[i - 1].chain_format

\* The keyless tier.
StructuralReport(bundle) ==
  LET valid == \A sid \in SessionsOf(bundle) : VerifySessionStructure(SessionEvents(bundle, sid))
      markers == IF valid THEN {i \in DOMAIN bundle : IsAuditGap(bundle[i])} ELSE {}
  IN [valid |-> valid,
      eventsDeclaredLost |-> MapThenSumSet(LAMBDA i : Dropped(bundle[i]), markers),
      exitCode |-> ExitCode(valid, Cardinality(markers))]
=============================================================================
