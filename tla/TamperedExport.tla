--------------------------- MODULE TamperedExport ---------------------------
(***************************************************************************)
(* Exports of signed sessions, damaged by up to MaxEdits edits, and what   *)
(* the two tiers of obsvr-verify (CliVerify) say of them.                  *)
(***************************************************************************)
EXTENDS CliVerify, SequencesExt

CONSTANTS Log,          \* what was signed: of each session, its events in order
          DeviceKey,    \* the key of the device that sealed them, which is pinned
          Texts,        \* what an export may hold as a session id or a prev_sig
          Altered(_),   \* what an edit may make of an event
          MaxEdits

Part == ({"numeral"} \X Int) \cup ({"text"} \X Nat)
        \cup ({"content"} \X Seq(Nat)) \cup ({"decision"} \X Seq(STRING))

\* A text is known by its parts, and one without a separator is its only part.
TextsAssumption ==
  /\ Texts \subseteq Nat
  /\ \A t \in Texts : PartsOf(t) \in Seq(Part) /\ PartsOf(t) # <<>>
  /\ \A t, u \in Texts : PartsOf(t) = PartsOf(u) => t = u

Unseparated(t) == t \in Texts /\ PartsOf(t) = <<Text(t)>>

\* An event as the reader of an export finds it.
Event ==
  [sdk_session_id : Texts, seq_no : Nat \cup {NoSeq}, timestamp_sdk : Nat \cup {NoTime},
   prompt : Seq(Nat), response : Seq(Nat), verdict : STRING, class : STRING, lineage : STRING,
   prev_sig : Texts, sdk_sig : Nat \cup {NoSig}, chain_format : Nat,
   device_key_id : STRING, device_sig : Nat]

\* A session as it is signed: numbered from 1, under one format, each event
\* linked to the one before it and sealed by the device.  Session ids are UUIDs
\* and signatures hexadecimal: no separators.  The text of a marker is a claim.
SignedInOrder(s) ==
  \A k \in DOMAIN Log[s] :
    LET e == Log[s][k] IN
      /\ e.sdk_session_id = s /\ e.seq_no = k /\ e.timestamp_sdk \in Nat \ {0}
      /\ Supported(e) /\ e.chain_format # 1 /\ e.chain_format = Log[s][1].chain_format
      /\ e.prev_sig = IF k = 1 THEN NoPrev ELSE Log[s][k - 1].sdk_sig
      /\ Unseparated(e.sdk_session_id) /\ Unseparated(e.prev_sig)
      /\ e.sdk_sig \in Nat \ {0} /\ e.device_sig = e.sdk_sig /\ e.device_key_id = DeviceKey
      /\ e.class = AUDIT_GAP_OPERATION => Len(e.prompt) = 2 /\ e.prompt[1] = 0

ASSUME TamperedExportAssumption ==
  /\ TextsAssumption
  /\ Log \in Seq(Seq(Event)) /\ \A s \in DOMAIN Log : SignedInOrder(s)
  /\ DeviceKey \in STRING /\ MaxEdits \in Nat

VARIABLES bundle, edits, mode

exportVars == <<bundle, edits, mode>>

SignedEvents == UNION {{Log[s][k] : k \in DOMAIN Log[s]} : s \in DOMAIN Log}
SignedMarkers == {e \in SignedEvents : e.class = AUDIT_GAP_OPERATION}

\* The ideal signature: known for what was signed, unforgeable for the rest.
Unsigned == -2
IdealSig(payload) ==
  LET hits == {e \in SignedEvents : Payload(DeclaredFormat(e), e) = payload}
  IN IF hits = {} THEN Unsigned ELSE (CHOOSE e \in hits : TRUE).sdk_sig

\* The export of a session, or of two.
Exports ==
  {Log[s] : s \in DOMAIN Log}
  \cup {Log[p[1]] \o Log[p[2]] : p \in {q \in (DOMAIN Log) \X (DOMAIN Log) : q[1] # q[2]}}

ExportInit ==
  /\ bundle \in Exports
  /\ edits = 0
  /\ mode \in Modes({DeviceKey})

Edit(damaged) ==
  /\ edits < MaxEdits
  /\ edits' = edits + 1
  /\ bundle' = damaged
  /\ UNCHANGED mode

Drop == \E i \in DOMAIN bundle : Edit(RemoveAt(bundle, i))
Duplicate == \E i \in DOMAIN bundle : Edit(InsertAt(bundle, i, bundle[i]))
Move == \E i, j \in DOMAIN bundle : i # j /\ Edit(InsertAt(RemoveAt(bundle, i), j, bundle[i]))
Alter ==
  \E i \in DOMAIN bundle : \E e \in Altered(bundle[i]) :
    e \in Event /\ Edit(ReplaceAt(bundle, i, e))

\* No edit is left to make; the verifier reads the export.
Examined == (edits = MaxEdits \/ bundle = <<>>) /\ UNCHANGED exportVars

ExportNext == Drop \/ Duplicate \/ Move \/ Alter \/ Examined

ExportSpec == ExportInit /\ [][ExportNext]_exportVars

----------------------------------------------------------------------------
(* Properties.                                                             *)

\* What a signed event and one the verifier takes for it must share, by the
\* strength SECURITY.md gives each format.
SameEvidence(e, f) ==
  LET format == DeclaredFormat(f) IN
    /\ e.sdk_session_id = f.sdk_session_id /\ e.seq_no = f.seq_no
    /\ e.timestamp_sdk = f.timestamp_sdk /\ e.prev_sig = f.prev_sig
    /\ e.prompt \o e.response = f.prompt \o f.response
    /\ format >= 2 => e.prompt = f.prompt /\ e.response = f.response
    /\ format >= 3 => e.verdict = f.verdict
    /\ format >= 4 => e.class = f.class
    /\ format >= 5 => e.lineage = f.lineage

\* A run of consecutive events of the log of one session, in order.
IsSegment(events) ==
  events # <<>> =>
    \E s \in DOMAIN Log : \E from \in 0..(Len(Log[s]) - Len(events)) :
      \A i \in DOMAIN events : SameEvidence(events[i], Log[s][from + i])

\* A chain that spells the preimages of a later format: format 1 has no number
\* in front, so its session id can stand for number and session id, its prompt
\* for the framed content, its prev_sig for decision and predecessor.
Respelled(events) ==
  DeclaredFormat(events[1]) = 1 /\ ~Unseparated(events[1].sdk_session_id)

\* No edit of an export goes unseen: a chain the verifier calls valid is an
\* unbroken run of what was signed, up to what its format signs.  Only a chain of
\* format 1 whose session id holds a separator may be something else.
ValidIsGenuine ==
  VerifyAuditChain(bundle, mode).valid => IsSegment(bundle) \/ Respelled(bundle)

\* The clock never moved back while the session was signed.
ClockForward(s) ==
  \A k \in 2..Len(Log[s]) : Log[s][k].timestamp_sdk >= Log[s][k - 1].timestamp_sdk

\* Nothing genuine is refused, wherever an export starts and ends.
GenuineIsValid ==
  (\E s \in DOMAIN Log :
     ClockForward(s) /\ \E a, b \in DOMAIN Log[s] : bundle = SubSeq(Log[s], a, b))
    => VerifyAuditChain(bundle, mode).valid

\* The events of the first event's session before position i.
Before(i) == {j \in 1..(i - 1) : bundle[j].sdk_session_id = bundle[1].sdk_session_id}

\* Re-anchoring: whether position i breaks is decided by its own event and the
\* one before it in its session, so damage never spreads down the chain.
DamageIsLocal ==
  bundle # <<>> /\ Supported(bundle[1]) =>
    \A i \in DOMAIN bundle : Before(i) # {} =>
      LET p == CHOOSE j \in Before(i) : \A k \in Before(i) : k <= j IN
        /\ bundle[i].sdk_session_id = bundle[1].sdk_session_id
        /\ bundle[i] \in SignedEvents
        /\ bundle[p].seq_no = bundle[i].seq_no - 1
        /\ bundle[p].sdk_sig = bundle[i].prev_sig
        /\ bundle[p].timestamp_sdk \in 0..bundle[i].timestamp_sdk
        /\ DeclaredFormat(bundle[i]) = DeclaredFormat(bundle[1])
        => i \notin VerifyAuditChain(bundle, mode).breaks

\* What the events at these positions declare lost.
Declared(positions) == MapThenSumSet(LAMBDA i : Dropped(bundle[i]), positions)

\* The tally is that of the signed markers in the prefix that verified: an
\* ordinary event that quotes a claim, one relabelled as a marker (where the
\* format signs the label), and a marker behind a break all declare nothing.
\* The payload signs the operation from format 4 on (chain-format.ts:132-142).  The
\* comment at audit-gap.ts:143-148, that it is in no preimage and a stored event can be
\* relabelled, is thus true of formats 1 to 3 alone, which the property leaves out.
TallyIsSigned ==
  LET result == VerifyAuditChain(bundle, mode)
      markers == {i \in 1..result.eventsVerified :
                    \E m \in SignedMarkers : SameEvidence(bundle[i], m)}
  IN (bundle # <<>> /\ DeclaredFormat(bundle[1]) >= 4) \/ edits = 0
       => /\ result.gapMarkers = Cardinality(markers)
          /\ result.eventsDeclaredLost = Declared(markers)

\* The two tiers of the command agree: what the keyed tier passes from its
\* first event on, the structural tier passes with the same exit code, unless
\* an event spells out format 1, which the signer leaves unsaid.
TiersAgree ==
  LET keyedRun == KeyedReport(bundle, mode)
      plainRun == StructuralReport(bundle)
      whole == \A sid \in SessionsOf(bundle) : SessionEvents(bundle, sid)[1].seq_no = 1
      unsaid == \A i \in DOMAIN bundle : bundle[i].chain_format # 1
  IN mode.keyed /\ keyedRun.valid /\ whole /\ unsaid => plainRun.exitCode = keyedRun.exitCode
=============================================================================
