-------------------------- MODULE MCTamperedExport --------------------------
(***************************************************************************)
(* Three sessions for TLC.  Session 1 is a current chain with a gap marker *)
(* in it; session 2 was signed under LegacyFormat, and a user of it typed  *)
(* the text of a marker's claim as a prompt; session 3 is one event.       *)
(***************************************************************************)
EXTENDS TamperedExport

CONSTANT LegacyFormat

\* A log of n events of a session; prompts and responses are token sequences.
Logged(sid, format, n, at) ==
  [k \in 1..n |->
     [sdk_session_id |-> sid, seq_no |-> k, timestamp_sdk |-> (k + 1) \div 2,
      prompt |-> IF k # 2 THEN <<5, 6>> ELSE IF sid = 1 THEN <<0, 2>> ELSE <<0, 9>>,
      response |-> <<7>>,
      verdict |-> "allowed",
      class |-> IF k = 2 /\ sid = 1 THEN AUDIT_GAP_OPERATION ELSE "llm_call",
      lineage |-> "l1", prev_sig |-> IF k = 1 THEN NoPrev ELSE at + k - 1,
      sdk_sig |-> at + k, chain_format |-> IF format = 1 THEN NoFormat ELSE format,
      device_key_id |-> "k1", device_sig |-> at + k]]

ThreeSessions == << Logged(1, CHAIN_FORMAT_CURRENT, 4, 10), Logged(2, LegacyFormat, 2, 20),
                    Logged(3, CHAIN_FORMAT_CURRENT, 1, 30) >>

\* The texts with separators: the current format's number before a session id,
\* the decision digest of the event behind a prev_sig before that prev_sig.
Numbered(sid) == 50 + sid
Decided(prevSig) == 100 + prevSig
MCTexts == (0..31) \cup {Numbered(1), Numbered(3)} \cup {Decided(p) : p \in {NoPrev, 11, 12, 13}}
MCPartsOf(t) ==
  IF t >= 100
    THEN <<DecisionDigest(<<"allowed", IF t = Decided(11) THEN AUDIT_GAP_OPERATION ELSE "llm_call", "l1">>),
           Text(t - 100)>>
  ELSE IF t > 50 THEN <<Numeral(CHAIN_FORMAT_CURRENT), Text(t - 50)>>
  ELSE <<Text(t)>>

\* An event of the current format, retold under format 1 with another verdict.
Retold(e) ==
  [e EXCEPT !.sdk_session_id = Numbered(@), !.prompt = ContentHash(CHAIN_FORMAT_CURRENT, e),
            !.response = <<>>, !.prev_sig = Decided(@), !.chain_format = NoFormat,
            !.verdict = "blocked"]

\* One field of one event rewritten, or its text moved between two fields.
OneField(e) ==
  {[e EXCEPT !.seq_no = v] : v \in {NoSeq, 0, 1, 3, 5}}
  \cup {[e EXCEPT !.timestamp_sdk = v] : v \in {NoTime, 0, 3}}
  \cup {[e EXCEPT !.chain_format = v] : v \in {1, 3, 6}}
  \cup {[e EXCEPT !.prompt = <<5>>, !.response = <<6, 7>>],
        [e EXCEPT !.prompt = <<0, 1>>], [e EXCEPT !.response = <<8>>],
        [e EXCEPT !.verdict = "blocked"], [e EXCEPT !.lineage = "l2"],
        [e EXCEPT !.class = "llm_call"], [e EXCEPT !.class = AUDIT_GAP_OPERATION],
        [e EXCEPT !.prev_sig = NoPrev], [e EXCEPT !.prev_sig = 11],
        [e EXCEPT !.sdk_sig = NoSig], [e EXCEPT !.sdk_sig = 99],
        [e EXCEPT !.device_sig = NoSeal], [e EXCEPT !.device_key_id = "k2"],
        [e EXCEPT !.sdk_session_id = 3 - @]}
  \cup {Retold(e)}
=============================================================================
