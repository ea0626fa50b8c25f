------------------------ MODULE TamperedExportProofs ------------------------
(***************************************************************************)
(* What obsvr-verify can be trusted with, for every log, every edit of its *)
(* export and any number of them: theorems about TamperedExport.  They     *)
(* hold of an ideal signature (SignaturesIdeal), which is what the runs    *)
(* instantiate.                                                            *)
(*                                                                         *)
(* A preimage is a sequence of parts between separators (PayloadPlaces).   *)
(* That of an event whose own texts hold none has one digest of a content, *)
(* at a place that tells whether a format number leads                     *)
(* (UnseparatedPlaces). So whatever it is read back as keeps its number    *)
(* and its time, and all its format signs too, unless it is read in format *)
(* 1 behind a session id with a separator (PayloadTells). With that        *)
(* exception, an event whose signature matches is one that was signed      *)
(* (Genuine).  The scan finds a break at exactly the positions that do not *)
(* fit the state reached there (ScanBreaks), and that state is the last    *)
(* event of the session before them (Anchored).                            *)
(***************************************************************************)
EXTENDS TamperedExport, Counting, SequenceTheorems

\* The signing key and the device key sign what the log holds, and nobody else
\* can: the signature that the runs give the verifier.
SignaturesIdeal == \A payload : Hmac(payload) = IdealSig(payload)

----------------------------------------------------------------------------
(* What a preimage tells.                                                  *)

\* The parts of a concatenation.
LEMMA TwoParts ==
  ASSUME NEW S, NEW a \in Seq(S), NEW b \in Seq(S)
  PROVE  /\ a \o b \in Seq(S) /\ Len(a) \in Nat /\ Len(b) \in Nat
         /\ Len(a \o b) = Len(a) + Len(b)
         /\ \A i \in 1..Len(a) : (a \o b)[i] = a[i]
         /\ \A i \in 1..Len(b) : (a \o b)[Len(a) + i] = b[i]
<1>1. /\ a \o b \in Seq(S) /\ Len(a \o b) = Len(a) + Len(b)
      /\ \A i \in 1..(Len(a) + Len(b)) :
           (a \o b)[i] = IF i <= Len(a) THEN a[i] ELSE b[i - Len(a)]
  BY ConcatProperties
<1>2. Len(a) \in Nat /\ Len(b) \in Nat
  OBVIOUS
<1>3. \A i \in 1..Len(a) : i \in 1..(Len(a) + Len(b)) /\ i <= Len(a)
  BY <1>2
<1>4. \A i \in 1..Len(b) : /\ Len(a) + i \in 1..(Len(a) + Len(b))
                           /\ ~(Len(a) + i <= Len(a)) /\ (Len(a) + i) - Len(a) = i
  BY <1>2
<1> QED
  BY <1>1, <1>2, <1>3, <1>4

\* Of three.
LEMMA ThreeParts ==
  ASSUME NEW S, NEW a \in Seq(S), NEW b \in Seq(S), NEW c \in Seq(S),
         NEW p, p = a \o b \o c
  PROVE  /\ p \in Seq(S) /\ Len(p) = Len(a) + Len(b) + Len(c)
         /\ \A i \in 1..Len(a) : p[i] = a[i]
         /\ \A i \in 1..Len(b) : p[Len(a) + i] = b[i]
         /\ \A i \in 1..Len(c) : p[Len(a) + Len(b) + i] = c[i]
<1>1. PICK q : q = a \o b
  OBVIOUS
<1>2. /\ q \in Seq(S) /\ Len(a) \in Nat /\ Len(b) \in Nat /\ Len(q) = Len(a) + Len(b)
      /\ \A i \in 1..Len(a) : q[i] = a[i]
      /\ \A i \in 1..Len(b) : q[Len(a) + i] = b[i]
  BY <1>1, TwoParts
<1>3. p = q \o c
  BY <1>1
<1>4. /\ p \in Seq(S) /\ Len(c) \in Nat /\ Len(p) = Len(q) + Len(c)
      /\ \A i \in 1..Len(q) : p[i] = q[i]
      /\ \A i \in 1..Len(c) : p[Len(q) + i] = c[i]
  <2>1. q \in Seq(S) /\ c \in Seq(S)
    BY <1>2
  <2>2. /\ q \o c \in Seq(S) /\ Len(c) \in Nat /\ Len(q \o c) = Len(q) + Len(c)
        /\ \A i \in 1..Len(q) : (q \o c)[i] = q[i]
        /\ \A i \in 1..Len(c) : (q \o c)[Len(q) + i] = c[i]
    BY <2>1, TwoParts
  <2> QED
    BY <1>3, <2>2
<1>5. \A i \in 1..Len(a) : i \in 1..Len(q)
  BY <1>2
<1>6. \A i \in 1..Len(b) : Len(a) + i \in 1..Len(q)
  BY <1>2
<1> QED
  BY <1>2, <1>4, <1>5, <1>6

\* Of four.
LEMMA FourParts ==
  ASSUME NEW S, NEW a \in Seq(S), NEW b \in Seq(S), NEW c \in Seq(S), NEW d \in Seq(S),
         NEW p, p = a \o b \o c \o d
  PROVE  /\ p \in Seq(S) /\ Len(p) = Len(a) + Len(b) + Len(c) + Len(d)
         /\ \A i \in 1..Len(a) : p[i] = a[i]
         /\ \A i \in 1..Len(b) : p[Len(a) + i] = b[i]
         /\ \A i \in 1..Len(c) : p[Len(a) + Len(b) + i] = c[i]
         /\ \A i \in 1..Len(d) : p[Len(a) + Len(b) + Len(c) + i] = d[i]
<1>1. PICK q : q = a \o b \o c
  OBVIOUS
<1>2. /\ q \in Seq(S) /\ Len(q) = Len(a) + Len(b) + Len(c)
      /\ \A i \in 1..Len(a) : q[i] = a[i]
      /\ \A i \in 1..Len(b) : q[Len(a) + i] = b[i]
      /\ \A i \in 1..Len(c) : q[Len(a) + Len(b) + i] = c[i]
  BY <1>1, ThreeParts
<1>3. p = q \o d
  BY <1>1
<1>4. /\ p \in Seq(S) /\ Len(d) \in Nat /\ Len(p) = Len(q) + Len(d)
      /\ \A i \in 1..Len(q) : p[i] = q[i]
      /\ \A i \in 1..Len(d) : p[Len(q) + i] = d[i]
  <2>1. q \in Seq(S) /\ d \in Seq(S)
    BY <1>2
  <2>2. /\ q \o d \in Seq(S) /\ Len(d) \in Nat /\ Len(q \o d) = Len(q) + Len(d)
        /\ \A i \in 1..Len(q) : (q \o d)[i] = q[i]
        /\ \A i \in 1..Len(d) : (q \o d)[Len(q) + i] = d[i]
    BY <2>1, TwoParts
  <2> QED
    BY <1>3, <2>2
<1>5. Len(a) \in Nat /\ Len(b) \in Nat /\ Len(c) \in Nat
  OBVIOUS
<1>6. \A i \in 1..Len(a) : i \in 1..Len(q)
  BY <1>2, <1>5
<1>7. \A i \in 1..Len(b) : Len(a) + i \in 1..Len(q)
  BY <1>2, <1>5
<1>8. \A i \in 1..Len(c) : Len(a) + Len(b) + i \in 1..Len(q)
  BY <1>2, <1>5
<1> QED
  BY <1>2, <1>4, <1>6, <1>7, <1>8

\* How many parts the format number and the decision take.
Lead(format) == IF format = 1 THEN 0 ELSE 1
Decided(format) == IF format >= 3 THEN 1 ELSE 0

\* The parts of a preimage, at their places: from format 2 on the format leads,
\* from format 3 on the decision follows the content, and the session id and the
\* prev_sig are as many parts as their separators make of them.
Places(p, format, e) ==
  LET S == PartsOf(e.sdk_session_id)
      P == PartsOf(e.prev_sig)
      at == Lead(format) + Len(S)
  IN /\ S \in Seq(Part) /\ Len(S) \in Nat \ {0}
     /\ P \in Seq(Part) /\ Len(P) \in Nat \ {0}
     /\ Len(p) = at + 3 + Decided(format) + Len(P)
     /\ format # 1 => p[1] = Numeral(format)
     /\ \A i \in 1..Len(S) : p[Lead(format) + i] = S[i]
     /\ p[at + 1] = Numeral(e.seq_no) /\ p[at + 2] = Numeral(TimeKey(e))
     /\ p[at + 3] = ContentDigest(ContentHash(format, e))
     /\ format >= 3 => p[at + 4] = DecisionDigest(DecisionHash(format, e))
     /\ \A i \in 1..Len(P) : p[at + 3 + Decided(format) + i] = P[i]

\* They are there.
LEMMA PayloadPlaces ==
  ASSUME NEW e \in Event, NEW format \in CHAIN_FORMATS_SUPPORTED
  PROVE  Places(Payload(format, e), format, e)
<1>0. PICK p, S, P, at, dd :
        /\ p = Payload(format, e) /\ S = PartsOf(e.sdk_session_id) /\ P = PartsOf(e.prev_sig)
        /\ at = (IF format = 1 THEN 0 ELSE 1) + Len(S) /\ dd = IF format >= 3 THEN 1 ELSE 0
  OBVIOUS
<1> DEFINE m == IF e.timestamp_sdk = NoTime THEN [e EXCEPT !.timestamp_sdk = 0] ELSE e
<1>1. /\ m.sdk_session_id = e.sdk_session_id /\ m.seq_no = e.seq_no
      /\ m.timestamp_sdk = TimeKey(e) /\ m.prev_sig = e.prev_sig
      /\ m.prompt = e.prompt /\ m.response = e.response /\ m.verdict = e.verdict
      /\ m.class = e.class /\ m.lineage = e.lineage
  BY DEF Event, TimeKey
<1>2. p = SignaturePayload(format, m)
  BY <1>0 DEF Payload
<1>3. ContentHash(format, m) = ContentHash(format, e)
  BY <1>1 DEF ContentHash
<1>4. DecisionHash(format, m) = DecisionHash(format, e)
  BY <1>1 DEF DecisionHash
<1> HIDE DEF m
<1>5. PICK F, N, T, C, D : /\ F = Numeral(format) /\ N = Numeral(e.seq_no) /\ T = Numeral(TimeKey(e))
                           /\ C = ContentDigest(ContentHash(format, e))
                           /\ D = DecisionDigest(DecisionHash(format, e))
  OBVIOUS
<1> DEFINE Q == Part \cup {F, N, T, C, D}
           a == IF format = 1 THEN <<>> ELSE <<F>>
           c == <<N, T, C>>
           d == IF format >= 3 THEN <<D>> ELSE <<>>
           front == a \o S \o c \o d
<1>6. p = front \o P
  BY <1>0, <1>1, <1>2, <1>3, <1>4, <1>5 DEF SignaturePayload
<1>7. a \in Seq(Q) /\ Len(a) = (IF format = 1 THEN 0 ELSE 1) /\ (format # 1 => a[1] = F)
  <2>1. CASE format = 1
    <3>1. a = <<>>
      BY <2>1
    <3> QED
      BY <2>1, <3>1
  <2>2. CASE format # 1
    <3>1. a = <<F>>
      BY <2>2
    <3> QED
      BY <2>2, <3>1
  <2> QED
    BY <2>1, <2>2
<1>8. c \in Seq(Q) /\ Len(c) = 3 /\ c[1] = N /\ c[2] = T /\ c[3] = C
  OBVIOUS
<1>9. d \in Seq(Q) /\ Len(d) = dd /\ (format >= 3 => d[1] = D)
  <2>1. CASE format >= 3
    <3>1. d = <<D>>
      BY <2>1
    <3> QED
      BY <1>0, <2>1, <3>1
  <2>2. CASE ~(format >= 3)
    <3>1. d = <<>>
      BY <2>2
    <3> QED
      BY <1>0, <2>2, <3>1
  <2> QED
    BY <2>1, <2>2
<1>10. /\ S \in Seq(Part) /\ Len(S) \in Nat \ {0} /\ S \in Seq(Q)
       /\ P \in Seq(Part) /\ Len(P) \in Nat \ {0} /\ P \in Seq(Q)
  <2>1. e.sdk_session_id \in Texts /\ e.prev_sig \in Texts
    BY DEF Event
  <2>2. S \in Seq(Part) /\ S # <<>> /\ P \in Seq(Part) /\ P # <<>>
    BY <1>0, <2>1, TamperedExportAssumption DEF TextsAssumption
  <2>3. Part \subseteq Q
    OBVIOUS
  <2> HIDE DEF Q
  <2>4. ASSUME NEW t \in Seq(Part), t # <<>> PROVE Len(t) \in Nat \ {0} /\ t \in Seq(Q)
    <3>1. Len(t) \in Nat \ {0}
      BY <2>4, EmptySeq
    <3>2. t \in Seq(Q)
      BY <2>3
    <3> QED
      BY <3>1, <3>2
  <2> QED
    BY <2>2, <2>4
<1> HIDE DEF Q, a, c, d, front
<1>11. /\ front \in Seq(Q) /\ Len(front) = Len(a) + Len(S) + Len(c) + Len(d)
       /\ \A i \in 1..Len(a) : front[i] = a[i]
       /\ \A i \in 1..Len(S) : front[Len(a) + i] = S[i]
       /\ \A i \in 1..Len(c) : front[Len(a) + Len(S) + i] = c[i]
       /\ \A i \in 1..Len(d) : front[Len(a) + Len(S) + Len(c) + i] = d[i]
  <2>1. front = a \o S \o c \o d
    BY DEF front
  <2>2. a \in Seq(Q) /\ S \in Seq(Q) /\ c \in Seq(Q) /\ d \in Seq(Q)
    BY <1>7, <1>8, <1>9, <1>10
  <2> QED
    BY <2>1, <2>2, FourParts
<1>12. /\ Len(p) = Len(front) + Len(P)
       /\ \A i \in 1..Len(front) : p[i] = front[i]
       /\ \A i \in 1..Len(P) : p[Len(front) + i] = P[i]
  <2>1. front \in Seq(Q) /\ P \in Seq(Q)
    BY <1>10, <1>11
  <2>2. /\ Len(front \o P) = Len(front) + Len(P)
        /\ \A i \in 1..Len(front) : (front \o P)[i] = front[i]
        /\ \A i \in 1..Len(P) : (front \o P)[Len(front) + i] = P[i]
    BY <2>1, TwoParts
  <2> QED
    BY <1>6, <2>2
<1>13. /\ Len(a) \in 0..1 /\ Len(d) \in 0..1 /\ Len(S) \in Nat \ {0} /\ Len(c) = 3
       /\ at = Len(a) + Len(S) /\ dd = Len(d) /\ Len(front) = at + 3 + dd
  BY <1>0, <1>7, <1>8, <1>9, <1>10, <1>11
<1>14. format # 1 => p[1] = F
  <2>1. format # 1 => 1 \in 1..Len(a) /\ 1 \in 1..Len(front)
    BY <1>7, <1>13
  <2> QED
    BY <1>7, <1>11, <1>12, <2>1
<1>15. \A i \in 1..Len(S) : p[Len(a) + i] = S[i]
  <2>1. \A i \in 1..Len(S) : Len(a) + i \in 1..Len(front)
    BY <1>13
  <2> QED
    BY <1>11, <1>12, <2>1
<1>16. p[at + 1] = N /\ p[at + 2] = T /\ p[at + 3] = C
  <2>1. \A i \in 1..3 : i \in 1..Len(c) /\ Len(a) + Len(S) + i = at + i /\ at + i \in 1..Len(front)
    BY <1>13
  <2>2. ASSUME NEW i \in 1..3 PROVE p[at + i] = c[i]
    <3>1. i \in 1..Len(c) /\ Len(a) + Len(S) + i = at + i /\ at + i \in 1..Len(front)
      BY <2>1
    <3>2. front[Len(a) + Len(S) + i] = c[i]
      BY <1>11, <3>1
    <3>3. p[at + i] = front[at + i]
      BY <1>12, <3>1
    <3> QED
      BY <3>1, <3>2, <3>3
  <2>3. p[at + 1] = c[1] /\ p[at + 2] = c[2] /\ p[at + 3] = c[3]
    BY <2>2
  <2> QED
    BY <1>8, <2>3
<1>17. format >= 3 => p[at + 4] = D
  <2>1. format >= 3 => /\ 1 \in 1..Len(d) /\ Len(a) + Len(S) + Len(c) + 1 = at + 4
                       /\ at + 4 \in 1..Len(front)
    BY <1>0, <1>13
  <2> QED
    BY <1>9, <1>11, <1>12, <2>1
<1>18. \A i \in 1..Len(P) : p[at + 3 + dd + i] = P[i]
  BY <1>12, <1>13
<1>19. Len(p) = at + 3 + dd + Len(P)
  BY <1>12, <1>13
<1>20. Lead(format) = Len(a) /\ Decided(format) = dd /\ at = Lead(format) + Len(S)
  BY <1>0, <1>7 DEF Lead, Decided
<1> QED
  BY <1>0, <1>5, <1>10, <1>14, <1>15, <1>16, <1>17, <1>18, <1>19, <1>20 DEF Places

\* The fields of a decision: as many as the format signs.
LEMMA DecisionTells ==
  ASSUME NEW e \in Event, NEW g \in Event, NEW format \in CHAIN_FORMATS_SUPPORTED,
         DecisionHash(format, e) = DecisionHash(format, g)
  PROVE  /\ e.verdict = g.verdict
         /\ format >= 4 => e.class = g.class
         /\ format >= 5 => e.lineage = g.lineage
<1>1. ASSUME NEW x \in Event, NEW p, p = DecisionHash(format, x)
      PROVE  /\ p[1] = x.verdict
             /\ format >= 4 => p[2] = x.class
             /\ format >= 5 => p[3] = x.lineage
  <2> DEFINE S == {x.verdict, x.class, x.lineage}
             a == <<x.verdict>>
             b == IF format >= 4 THEN <<x.class>> ELSE <<>>
             c == IF format >= 5 THEN <<x.lineage>> ELSE <<>>
  <2>0. format \in 1..5
    BY DEF CHAIN_FORMATS_SUPPORTED
  <2>1. p = a \o b \o c
    BY <1>1 DEF DecisionHash
  <2>2. a \in Seq(S) /\ Len(a) = 1 /\ a[1] = x.verdict
    OBVIOUS
  <2>3. b \in Seq(S) /\ Len(b) = (IF format >= 4 THEN 1 ELSE 0) /\ (format >= 4 => b[1] = x.class)
    <3>1. CASE format >= 4
      <4>1. b = <<x.class>>
        BY <3>1
      <4> QED
        BY <3>1, <4>1
    <3>2. CASE ~(format >= 4)
      <4>1. b = <<>>
        BY <3>2
      <4>2. <<>> \in Seq(S)
        OBVIOUS
      <4> QED
        BY <3>2, <4>1, <4>2
    <3> QED
      BY <3>1, <3>2
  <2>4. c \in Seq(S) /\ Len(c) = (IF format >= 5 THEN 1 ELSE 0) /\ (format >= 5 => c[1] = x.lineage)
    <3>1. CASE format >= 5
      <4>1. c = <<x.lineage>>
        BY <3>1
      <4> QED
        BY <3>1, <4>1
    <3>2. CASE ~(format >= 5)
      <4>1. c = <<>>
        BY <3>2
      <4>2. <<>> \in Seq(S)
        OBVIOUS
      <4> QED
        BY <3>2, <4>1, <4>2
    <3> QED
      BY <3>1, <3>2
  <2> HIDE DEF S, a, b, c
  <2>5. /\ \A i \in 1..Len(a) : p[i] = a[i]
        /\ \A i \in 1..Len(b) : p[Len(a) + i] = b[i]
        /\ \A i \in 1..Len(c) : p[Len(a) + Len(b) + i] = c[i]
    <3>1. a \in Seq(S) /\ b \in Seq(S) /\ c \in Seq(S)
      BY <2>2, <2>3, <2>4
    <3> QED
      BY <2>1, <3>1, ThreeParts
  <2>7. format >= 4 => 1 \in 1..Len(b) /\ Len(a) + 1 = 2
    BY <2>0, <2>2, <2>3
  <2>8. format >= 5 => 1 \in 1..Len(c) /\ Len(a) + Len(b) + 1 = 3
    BY <2>0, <2>2, <2>3, <2>4
  <2> QED
    BY <2>2, <2>3, <2>4, <2>5, <2>7, <2>8
<1> QED
  BY <1>1

\* A text is framed by its length.
LEMMA FrameIs ==
  ASSUME NEW x \in Seq(Nat)
  PROVE  /\ Framed(x) \in Seq(Nat) /\ Len(Framed(x)) = 1 + Len(x)
         /\ Framed(x)[1] = Len(x) /\ \A i \in 1..Len(x) : Framed(x)[1 + i] = x[i]
<1>1. <<Len(x)>> \in Seq(Nat) /\ Len(<<Len(x)>>) = 1 /\ <<Len(x)>>[1] = Len(x)
  OBVIOUS
<1>2. PICK l : l = <<Len(x)>>
  OBVIOUS
<1>3. /\ l \o x \in Seq(Nat) /\ Len(l \o x) = Len(l) + Len(x)
      /\ \A i \in 1..Len(l) : (l \o x)[i] = l[i]
      /\ \A i \in 1..Len(x) : (l \o x)[Len(l) + i] = x[i]
  BY <1>1, <1>2, TwoParts
<1>4. Framed(x) = l \o x /\ Len(l) = 1 /\ 1 \in 1..Len(l) /\ l[1] = Len(x)
  BY <1>1, <1>2 DEF Framed
<1> QED
  BY <1>3, <1>4

\* Two framed texts behind the tag.
Frames(x, y) == <<CONTENT_HASH_DOMAIN_TAG>> \o Framed(x) \o Framed(y)

\* Their lengths and their tokens, at their places.
FramedAt(h, x, y) ==
  /\ Len(x) \in Nat /\ Len(y) \in Nat
  /\ h[2] = Len(x) /\ \A i \in 1..Len(x) : h[2 + i] = x[i]
  /\ h[3 + Len(x)] = Len(y) /\ \A i \in 1..Len(y) : h[3 + Len(x) + i] = y[i]

\* They are there.
LEMMA FramesAt ==
  ASSUME NEW x \in Seq(Nat), NEW y \in Seq(Nat)
  PROVE  FramedAt(Frames(x, y), x, y)
<1>1. PICK h, t, f, g : /\ h = Frames(x, y)
                        /\ t = <<CONTENT_HASH_DOMAIN_TAG>> /\ f = Framed(x) /\ g = Framed(y)
  OBVIOUS
<1>2. t \in Seq(Nat) /\ Len(t) = 1
  BY <1>1 DEF CONTENT_HASH_DOMAIN_TAG
<1>3. /\ f \in Seq(Nat) /\ Len(f) = 1 + Len(x) /\ Len(x) \in Nat
      /\ f[1] = Len(x) /\ \A i \in 1..Len(x) : f[1 + i] = x[i]
  <2>1. /\ Framed(x) \in Seq(Nat) /\ Len(Framed(x)) = 1 + Len(x)
        /\ Framed(x)[1] = Len(x) /\ \A i \in 1..Len(x) : Framed(x)[1 + i] = x[i]
    BY FrameIs
  <2> QED
    BY <1>1, <2>1
<1>4. /\ g \in Seq(Nat) /\ Len(g) = 1 + Len(y) /\ Len(y) \in Nat
      /\ g[1] = Len(y) /\ \A i \in 1..Len(y) : g[1 + i] = y[i]
  <2>1. /\ Framed(y) \in Seq(Nat) /\ Len(Framed(y)) = 1 + Len(y)
        /\ Framed(y)[1] = Len(y) /\ \A i \in 1..Len(y) : Framed(y)[1 + i] = y[i]
    BY FrameIs
  <2> QED
    BY <1>1, <2>1
<1>5. /\ \A i \in 1..Len(f) : h[Len(t) + i] = f[i]
      /\ \A i \in 1..Len(g) : h[Len(t) + Len(f) + i] = g[i]
  <2>1. h = t \o f \o g
    BY <1>1 DEF Frames
  <2>2. t \in Seq(Nat) /\ f \in Seq(Nat) /\ g \in Seq(Nat)
    BY <1>2, <1>3, <1>4
  <2>3. /\ h \in Seq(Nat) /\ Len(h) = Len(t) + Len(f) + Len(g)
        /\ \A i \in 1..Len(t) : h[i] = t[i]
        /\ \A i \in 1..Len(f) : h[Len(t) + i] = f[i]
        /\ \A i \in 1..Len(g) : h[Len(t) + Len(f) + i] = g[i]
    BY <2>1, <2>2, ThreeParts
  <2> QED
    BY <2>3
<1>6. /\ \A i \in 1..(1 + Len(x)) : h[1 + i] = f[i]
      /\ \A i \in 1..(1 + Len(y)) : h[2 + Len(x) + i] = g[i]
  <2>1. Len(t) + Len(f) = 2 + Len(x)
    BY <1>2, <1>3
  <2> QED
    BY <1>2, <1>3, <1>4, <1>5, <2>1
<1>7. h[2] = Len(x)
  <2>1. 1 \in 1..(1 + Len(x)) /\ 1 + 1 = 2
    BY <1>3
  <2> QED
    BY <1>3, <1>6, <2>1
<1>8. h[3 + Len(x)] = Len(y)
  <2>1. 1 \in 1..(1 + Len(y)) /\ 2 + Len(x) + 1 = 3 + Len(x)
    BY <1>3, <1>4
  <2>2. h[2 + Len(x) + 1] = g[1]
    BY <1>6, <2>1
  <2> QED
    BY <1>4, <2>1, <2>2
<1>9. ASSUME NEW i \in 1..Len(x) PROVE h[2 + i] = x[i]
  <2>1. 1 + i \in 1..(1 + Len(x)) /\ 1 + (1 + i) = 2 + i
    BY <1>3
  <2>2. h[1 + (1 + i)] = f[1 + i]
    BY <1>6, <2>1
  <2> QED
    BY <1>3, <2>1, <2>2
<1>10. ASSUME NEW i \in 1..Len(y) PROVE h[3 + Len(x) + i] = y[i]
  <2>1. 1 + i \in 1..(1 + Len(y)) /\ 2 + Len(x) + (1 + i) = 3 + Len(x) + i
    BY <1>3, <1>4
  <2>2. h[2 + Len(x) + (1 + i)] = g[1 + i]
    BY <1>6, <2>1
  <2> QED
    BY <1>4, <2>1, <2>2
<1> QED
  BY <1>1, <1>3, <1>4, <1>7, <1>8, <1>9, <1>10 DEF FramedAt

\* The text, up to where the prompt ends in format 1.
LEMMA ContentTells ==
  ASSUME NEW e \in Event, NEW g \in Event, NEW format,
         ContentHash(format, e) = ContentHash(format, g)
  PROVE  /\ e.prompt \o e.response = g.prompt \o g.response
         /\ format # 1 => e.prompt = g.prompt /\ e.response = g.response
<1>1. CASE format = 1
  BY <1>1 DEF ContentHash
<1>2. CASE format # 1
  <2>1. PICK x, y, u, v : /\ x = e.prompt /\ y = e.response /\ u = g.prompt /\ v = g.response
                          /\ x \in Seq(Nat) /\ y \in Seq(Nat) /\ u \in Seq(Nat) /\ v \in Seq(Nat)
    BY DEF Event
  <2>2. PICK h : h = Frames(x, y) /\ h = Frames(u, v)
    BY <1>2, <2>1 DEF ContentHash, Frames
  <2>3. FramedAt(h, x, y)
    BY <2>1, <2>2, FramesAt
  <2>4. FramedAt(h, u, v)
    BY <2>1, <2>2, FramesAt
  <2>5. Len(x) = Len(u) /\ Len(y) = Len(v)
    BY <2>3, <2>4 DEF FramedAt
  <2>6. x = u
    <3>1. \A i \in 1..Len(x) : x[i] = u[i]
      BY <2>3, <2>4, <2>5 DEF FramedAt
    <3> QED
      BY <2>1, <2>5, <3>1, SeqEqual
  <2>7. y = v
    <3>1. \A i \in 1..Len(y) : y[i] = v[i]
      BY <2>3, <2>4, <2>5 DEF FramedAt
    <3> QED
      BY <2>1, <2>5, <3>1, SeqEqual
  <2> QED
    BY <2>1, <2>6, <2>7
<1> QED
  BY <1>1, <1>2

\* The kinds of parts are told apart, and what a part stands for is read off it.
LEMMA PartsTell ==
  /\ \A x, y : Numeral(x) = Numeral(y) => x = y
  /\ \A x, y : Text(x) = Text(y) => x = y
  /\ \A x, y : ContentDigest(x) = ContentDigest(y) => x = y
  /\ \A x, y : DecisionDigest(x) = DecisionDigest(y) => x = y
  /\ \A x, y : /\ ContentDigest(x) # Numeral(y) /\ ContentDigest(x) # Text(y)
               /\ ContentDigest(x) # DecisionDigest(y)
<1>1. "numeral" # "content" /\ "text" # "content" /\ "decision" # "content"
  OBVIOUS
<1> QED
  BY <1>1 DEF Numeral, Text, ContentDigest, DecisionDigest

\* A preimage whose texts hold no separator, at its places: the one digest of a
\* content comes fourth, behind the format number if there is one.
LEMMA UnseparatedPlaces ==
  ASSUME NEW g \in Event, NEW b \in CHAIN_FORMATS_SUPPORTED,
         Unseparated(g.sdk_session_id), Unseparated(g.prev_sig),
         NEW q, q = Payload(b, g), NEW j, j = IF b = 1 THEN 0 ELSE 1
  PROVE  /\ Len(q) = j + 5 + (IF b >= 3 THEN 1 ELSE 0)
         /\ b # 1 => q[1] = Numeral(b)
         /\ q[j + 1] = Text(g.sdk_session_id)
         /\ q[j + 2] = Numeral(g.seq_no) /\ q[j + 3] = Numeral(TimeKey(g))
         /\ q[j + 4] = ContentDigest(ContentHash(b, g))
         /\ b >= 3 => q[j + 5] = DecisionDigest(DecisionHash(b, g))
         /\ q[Len(q)] = Text(g.prev_sig)
         /\ \A i \in 1..Len(q) : \A x : q[i] = ContentDigest(x) => i = j + 4
<1>1. PICK S, P, at, dd : /\ S = PartsOf(g.sdk_session_id) /\ P = PartsOf(g.prev_sig)
                          /\ at = Lead(b) + Len(S) /\ dd = Decided(b)
  OBVIOUS
<1>2. /\ Len(S) = 1 /\ S[1] = Text(g.sdk_session_id) /\ Len(P) = 1 /\ P[1] = Text(g.prev_sig)
  BY <1>1 DEF Unseparated
<1>3. /\ Len(q) = at + 3 + dd + Len(P)
      /\ b # 1 => q[1] = Numeral(b)
      /\ \A i \in 1..Len(S) : q[j + i] = S[i]
      /\ q[at + 1] = Numeral(g.seq_no) /\ q[at + 2] = Numeral(TimeKey(g))
      /\ q[at + 3] = ContentDigest(ContentHash(b, g))
      /\ b >= 3 => q[at + 4] = DecisionDigest(DecisionHash(b, g))
      /\ \A i \in 1..Len(P) : q[at + 3 + dd + i] = P[i]
  <2>1. Places(q, b, g)
    BY PayloadPlaces
  <2>2. j = Lead(b)
    BY DEF Lead
  <2> QED
    BY <1>1, <2>1, <2>2 DEF Places
<1>4. b \in 1..5 /\ j \in 0..1 /\ dd \in 0..1 /\ at = j + 1 /\ 1 \in 1..1
  BY <1>1, <1>2 DEF CHAIN_FORMATS_SUPPORTED, Lead, Decided
<1>5. Len(q) = j + 5 + dd /\ at + 1 = j + 2 /\ at + 2 = j + 3 /\ at + 3 = j + 4 /\ at + 4 = j + 5
  BY <1>2, <1>3, <1>4
<1>6. q[j + 1] = Text(g.sdk_session_id)
  BY <1>2, <1>3, <1>4
<1>7. q[Len(q)] = Text(g.prev_sig)
  <2>1. Len(q) = at + 3 + dd + 1
    BY <1>2, <1>3
  <2> QED
    BY <1>2, <1>3, <1>4, <2>1
<1>8. /\ q[j + 2] = Numeral(g.seq_no) /\ q[j + 3] = Numeral(TimeKey(g))
      /\ q[j + 4] = ContentDigest(ContentHash(b, g))
      /\ b >= 3 => q[j + 5] = DecisionDigest(DecisionHash(b, g))
  BY <1>3, <1>5
<1>9. ASSUME NEW i \in 1..Len(q), NEW x, q[i] = ContentDigest(x) PROVE i = j + 4
  <2>1. \/ b # 1 /\ i = 1
        \/ i \in {j + 1, j + 2, j + 3, j + 4, Len(q)}
        \/ b >= 3 /\ i = j + 5
    BY <1>1, <1>4, <1>5 DEF Decided
  <2>2. /\ b # 1 => q[1] # ContentDigest(x)
        /\ q[j + 1] # ContentDigest(x) /\ q[j + 2] # ContentDigest(x) /\ q[j + 3] # ContentDigest(x)
        /\ b >= 3 => q[j + 5] # ContentDigest(x)
        /\ q[Len(q)] # ContentDigest(x)
    <3>1. \A y : Numeral(y) # ContentDigest(x) /\ Text(y) # ContentDigest(x) /\ DecisionDigest(y) # ContentDigest(x)
      BY PartsTell
    <3>2. b # 1 => q[1] # ContentDigest(x)
      BY <1>3, <3>1
    <3>3. q[j + 1] # ContentDigest(x) /\ q[Len(q)] # ContentDigest(x)
      BY <1>6, <1>7, <3>1
    <3>4. q[j + 2] # ContentDigest(x) /\ q[j + 3] # ContentDigest(x)
      BY <1>8, <3>1
    <3>5. b >= 3 => q[j + 5] # ContentDigest(x)
      BY <1>8, <3>1
    <3> QED
      BY <3>2, <3>3, <3>4, <3>5
  <2> QED
    BY <1>9, <2>1, <2>2
<1> QED
  BY <1>1, <1>3, <1>5, <1>6, <1>7, <1>8, <1>9 DEF Decided

\* What a preimage tells of an event whose texts hold no separator, whatever event
\* and format it is read back as: the number and the time, always; and all that its
\* format signs, unless it is read in format 1 behind a session id with a separator.
LEMMA PayloadTells ==
  ASSUME NEW e \in Event, NEW a \in CHAIN_FORMATS_SUPPORTED,
         NEW g \in Event, NEW b \in CHAIN_FORMATS_SUPPORTED,
         Unseparated(g.sdk_session_id), Unseparated(g.prev_sig),
         Payload(a, e) = Payload(b, g)
  PROVE  /\ e.seq_no = g.seq_no /\ TimeKey(e) = TimeKey(g)
         /\ a # 1 \/ Unseparated(e.sdk_session_id) =>
              /\ a = b
              /\ e.sdk_session_id = g.sdk_session_id /\ e.prev_sig = g.prev_sig
              /\ e.prompt \o e.response = g.prompt \o g.response
              /\ a >= 2 => e.prompt = g.prompt /\ e.response = g.response
              /\ a >= 3 => e.verdict = g.verdict
              /\ a >= 4 => e.class = g.class
              /\ a >= 5 => e.lineage = g.lineage
<1>1. PICK p, S, P, i, j, at, dd :
        /\ p = Payload(a, e) /\ p = Payload(b, g)
        /\ S = PartsOf(e.sdk_session_id) /\ P = PartsOf(e.prev_sig)
        /\ i = Lead(a) /\ j = Lead(b) /\ at = i + Len(S) /\ dd = Decided(a)
  OBVIOUS
<1>2. /\ S \in Seq(Part) /\ Len(S) \in Nat \ {0}
      /\ P \in Seq(Part) /\ Len(P) \in Nat \ {0}
      /\ Len(p) = at + 3 + dd + Len(P)
      /\ a # 1 => p[1] = Numeral(a)
      /\ \A k \in 1..Len(S) : p[i + k] = S[k]
      /\ p[at + 1] = Numeral(e.seq_no) /\ p[at + 2] = Numeral(TimeKey(e))
      /\ p[at + 3] = ContentDigest(ContentHash(a, e))
      /\ a >= 3 => p[at + 4] = DecisionDigest(DecisionHash(a, e))
      /\ \A k \in 1..Len(P) : p[at + 3 + dd + k] = P[k]
  <2>1. Places(p, a, e)
    BY <1>1, PayloadPlaces
  <2> QED
    BY <1>1, <2>1 DEF Places
<1>3. /\ Len(p) = j + 5 + (IF b >= 3 THEN 1 ELSE 0)
      /\ b # 1 => p[1] = Numeral(b)
      /\ p[j + 1] = Text(g.sdk_session_id)
      /\ p[j + 2] = Numeral(g.seq_no) /\ p[j + 3] = Numeral(TimeKey(g))
      /\ p[j + 4] = ContentDigest(ContentHash(b, g))
      /\ b >= 3 => p[j + 5] = DecisionDigest(DecisionHash(b, g))
      /\ p[Len(p)] = Text(g.prev_sig)
      /\ \A k \in 1..Len(p) : \A x : p[k] = ContentDigest(x) => k = j + 4
  <2>1. /\ g \in Event /\ b \in CHAIN_FORMATS_SUPPORTED
        /\ Unseparated(g.sdk_session_id) /\ Unseparated(g.prev_sig)
        /\ p = Payload(b, g) /\ j = IF b = 1 THEN 0 ELSE 1
    BY <1>1 DEF Lead
  <2> QED
    BY <2>1, UnseparatedPlaces
<1>4. a \in 1..5 /\ b \in 1..5 /\ i \in 0..1 /\ j \in 0..1 /\ dd \in 0..1 /\ at \in Nat
  BY <1>1, <1>2 DEF CHAIN_FORMATS_SUPPORTED, Lead, Decided
<1>5. at = j + 1
  <2>1. at + 3 \in 1..Len(p)
    BY <1>2, <1>4
  <2>2. at + 3 = j + 4
    BY <1>2, <1>3, <2>1
  <2> QED
    BY <1>4, <2>2
<1>6. at + 1 = j + 2 /\ at + 2 = j + 3 /\ at + 3 = j + 4 /\ at + 4 = j + 5
  BY <1>4, <1>5
<1>7. e.seq_no = g.seq_no /\ TimeKey(e) = TimeKey(g) /\ ContentHash(a, e) = ContentHash(b, g)
  <2>1. /\ Numeral(e.seq_no) = Numeral(g.seq_no) /\ Numeral(TimeKey(e)) = Numeral(TimeKey(g))
        /\ ContentDigest(ContentHash(a, e)) = ContentDigest(ContentHash(b, g))
    BY <1>2, <1>3, <1>6
  <2> QED
    BY <2>1, PartsTell
<1>8. ASSUME a # 1 \/ Unseparated(e.sdk_session_id)
      PROVE  a = b /\ e.sdk_session_id = g.sdk_session_id
  <2>1. CASE a # 1
    <3>1. i = 1 /\ j = 1 /\ b # 1 /\ Len(S) = 1
      <4>1. i = 1 /\ at = 1 + Len(S) /\ Len(S) \in Nat \ {0}
        BY <1>1, <1>2, <2>1 DEF Lead
      <4>2. Len(S) = j /\ j = 1
        BY <1>4, <1>5, <4>1
      <4>3. b # 1
        BY <1>1, <4>2 DEF Lead
      <4> QED
        BY <4>1, <4>2, <4>3
    <3>2. a = b
      BY <1>2, <1>3, <2>1, <3>1, PartsTell
    <3>3. S[1] = Text(g.sdk_session_id)
      <4>1. 1 \in 1..Len(S)
        BY <3>1
      <4> QED
        BY <1>2, <1>3, <3>1, <4>1
    <3>4. S = <<Text(g.sdk_session_id)>>
      BY <1>2, <3>1, <3>3
    <3>5. PartsOf(e.sdk_session_id) = PartsOf(g.sdk_session_id)
      BY <1>1, <3>4 DEF Unseparated
    <3>6. e.sdk_session_id \in Texts /\ g.sdk_session_id \in Texts
      BY DEF Event
    <3>7. e.sdk_session_id = g.sdk_session_id
      BY <3>5, <3>6, TamperedExportAssumption DEF TextsAssumption
    <3> QED
      BY <3>2, <3>7
  <2>2. CASE a = 1
    <3>1. S = <<Text(e.sdk_session_id)>>
      BY <1>1, <1>8, <2>2 DEF Unseparated
    <3>2. Len(S) = 1 /\ S[1] = Text(e.sdk_session_id) /\ 1 \in 1..Len(S)
      BY <3>1
    <3>3. i = 0 /\ j = 0 /\ b = 1
      BY <1>1, <1>4, <1>5, <2>2, <3>2 DEF Lead
    <3>4. p[1] = Text(e.sdk_session_id) /\ p[1] = Text(g.sdk_session_id)
      BY <1>2, <1>3, <3>2, <3>3
    <3> QED
      BY <2>2, <3>3, <3>4, PartsTell
  <2> QED
    BY <2>1, <2>2
<1>9. ASSUME a = b
      PROVE  /\ e.prev_sig = g.prev_sig
             /\ e.prompt \o e.response = g.prompt \o g.response
             /\ a >= 2 => e.prompt = g.prompt /\ e.response = g.response
             /\ a >= 3 => e.verdict = g.verdict
             /\ a >= 4 => e.class = g.class
             /\ a >= 5 => e.lineage = g.lineage
  <2>1. /\ e.prompt \o e.response = g.prompt \o g.response
        /\ a # 1 => e.prompt = g.prompt /\ e.response = g.response
    BY <1>7, <1>9, ContentTells
  <2>2. a >= 3 => DecisionHash(a, e) = DecisionHash(a, g)
    BY <1>2, <1>3, <1>6, <1>9, PartsTell
  <2>3. a >= 3 => /\ e.verdict = g.verdict
                  /\ a >= 4 => e.class = g.class
                  /\ a >= 5 => e.lineage = g.lineage
    BY <2>2, DecisionTells
  <2>4. (a >= 2 => a # 1) /\ (a >= 4 => a >= 3) /\ (a >= 5 => a >= 3 /\ a >= 4)
    BY <1>4
  <2>5. Len(P) = 1 /\ Len(p) = at + 3 + dd + 1
    <3>1. dd = IF b >= 3 THEN 1 ELSE 0
      BY <1>1, <1>9 DEF Decided
    <3>2. Len(p) = at + 3 + dd + Len(P) /\ Len(p) = j + 5 + dd /\ Len(P) \in Nat
      BY <1>2, <1>3, <3>1
    <3>3. PICK l : l = Len(P)
      OBVIOUS
    <3>4. (j + 1) + 3 + dd + l = j + 5 + dd /\ l \in Nat /\ j \in Nat /\ dd \in Nat
      BY <1>4, <1>5, <3>2, <3>3
    <3>5. l = 1
      BY <3>4
    <3> QED
      BY <3>2, <3>3, <3>5
  <2>6. P = <<Text(g.prev_sig)>>
    <3>1. 1 \in 1..Len(P)
      BY <2>5
    <3>2. P[1] = Text(g.prev_sig)
      BY <1>2, <1>3, <2>5, <3>1
    <3> QED
      BY <1>2, <2>5, <3>2
  <2>7. e.prev_sig = g.prev_sig
    <3>1. PartsOf(e.prev_sig) = PartsOf(g.prev_sig)
      BY <1>1, <2>6 DEF Unseparated
    <3>2. e.prev_sig \in Texts /\ g.prev_sig \in Texts
      BY DEF Event
    <3> QED
      BY <3>1, <3>2, TamperedExportAssumption DEF TextsAssumption
  <2> QED
    BY <2>1, <2>3, <2>4, <2>7
<1> QED
  BY <1>7, <1>8, <1>9

----------------------------------------------------------------------------
(* What was signed.                                                        *)

\* An event of the log, by session and number.
LEMMA SignedAt ==
  ASSUME NEW s \in DOMAIN Log, NEW k \in DOMAIN Log[s]
  PROVE  /\ Log[s][k] \in Event /\ Log[s][k] \in SignedEvents
         /\ s \in Nat /\ k \in Nat \ {0} /\ k \in 1..Len(Log[s]) /\ Len(Log[s]) \in Nat
         /\ Log[s] \in Seq(Event)
         /\ Log[s][k].sdk_session_id = s /\ Log[s][k].seq_no = k
         /\ Log[s][k].timestamp_sdk \in Nat \ {0}
         /\ DeclaredFormat(Log[s][k]) \in CHAIN_FORMATS_SUPPORTED
         /\ DeclaredFormat(Log[s][k]) = DeclaredFormat(Log[s][1])
         /\ Log[s][k].chain_format # 1
         /\ Log[s][k].prev_sig = IF k = 1 THEN NoPrev ELSE Log[s][k - 1].sdk_sig
         /\ Unseparated(Log[s][k].sdk_session_id) /\ Unseparated(Log[s][k].prev_sig)
         /\ Log[s][k].sdk_sig \in Nat \ {0} /\ Log[s][k].device_sig = Log[s][k].sdk_sig
         /\ Log[s][k].device_key_id = DeviceKey
         /\ Log[s][k].class = AUDIT_GAP_OPERATION =>
              Len(Log[s][k].prompt) = 2 /\ Log[s][k].prompt[1] = 0
<1>1. Log \in Seq(Seq(Event)) /\ SignedInOrder(s)
  BY TamperedExportAssumption
<1>2. s \in 1..Len(Log) /\ Log[s] \in Seq(Event) /\ Len(Log) \in Nat
  BY <1>1
<1>3. k \in 1..Len(Log[s]) /\ Len(Log[s]) \in Nat
  BY <1>2
<1>4. Log[s][k] \in Event
  BY <1>2, <1>3
<1>5. Log[s][k] \in SignedEvents
  BY DEF SignedEvents
<1>6. Log[s][k].chain_format = Log[s][1].chain_format /\ Supported(Log[s][k])
  BY <1>1 DEF SignedInOrder
<1>7. /\ DeclaredFormat(Log[s][k]) = DeclaredFormat(Log[s][1])
      /\ DeclaredFormat(Log[s][k]) \in CHAIN_FORMATS_SUPPORTED
  BY <1>6 DEF DeclaredFormat, Supported
<1> QED
  BY <1>1, <1>2, <1>3, <1>4, <1>5, <1>7 DEF SignedInOrder

\* A signed event stands in the log where it says, and its number is its name.
LEMMA SignedIs ==
  ASSUME NEW e \in SignedEvents
  PROVE  /\ e.sdk_session_id \in DOMAIN Log /\ e.seq_no \in DOMAIN Log[e.sdk_session_id]
         /\ e = Log[e.sdk_session_id][e.seq_no]
<1>1. PICK s \in DOMAIN Log : \E k \in DOMAIN Log[s] : e = Log[s][k]
  BY DEF SignedEvents
<1>2. PICK k \in DOMAIN Log[s] : e = Log[s][k]
  BY <1>1
<1>3. e.sdk_session_id = s /\ e.seq_no = k
  BY <1>2, SignedAt
<1> QED
  BY <1>2, <1>3

\* The signature of a signed event's preimage is the one it carries.
LEMMA IdealOfSigned ==
  ASSUME SignaturesIdeal, NEW e \in SignedEvents
  PROVE  Hmac(Payload(DeclaredFormat(e), e)) = e.sdk_sig
<1> DEFINE payload == Payload(DeclaredFormat(e), e)
           hits == {x \in SignedEvents : Payload(DeclaredFormat(x), x) = payload}
           c == CHOOSE x \in hits : TRUE
<1>1. e \in hits
  OBVIOUS
<1>2. c \in hits
  BY <1>1
<1>3. Hmac(payload) = c.sdk_sig
  BY <1>1 DEF SignaturesIdeal, IdealSig
<1> HIDE DEF c
<1>4. c \in SignedEvents /\ Payload(DeclaredFormat(c), c) = Payload(DeclaredFormat(e), e)
  BY <1>2
<1> HIDE DEF hits, payload
<1>5. \A x \in SignedEvents : /\ x \in Event /\ DeclaredFormat(x) \in CHAIN_FORMATS_SUPPORTED
                              /\ Unseparated(x.sdk_session_id) /\ Unseparated(x.prev_sig)
  BY SignedIs, SignedAt
<1>6. c.sdk_session_id = e.sdk_session_id /\ c.seq_no = e.seq_no
  BY <1>4, <1>5, PayloadTells
<1>7. c = e
  BY <1>4, <1>6, SignedIs
<1> QED
  BY <1>3, <1>7 DEF payload

\* What the verifier checks of one event, under one format.
Checks(format, e) ==
  /\ DeclaredFormat(e) = format
  /\ SignatureMatches(mode, format, e)
  /\ SealMatches(mode, format, e)

\* An event the checks pass has the preimage of one that was signed, and with it
\* its number, its time and, under the key, its signature.
LEMMA Vouched ==
  ASSUME SignaturesIdeal, mode \in Modes({DeviceKey}),
         NEW e \in Event, NEW format \in CHAIN_FORMATS_SUPPORTED, Checks(format, e)
  PROVE  \E g \in SignedEvents :
           /\ Payload(format, e) = Payload(DeclaredFormat(g), g)
           /\ e.seq_no = g.seq_no /\ e.timestamp_sdk = g.timestamp_sdk
           /\ mode.keyed => e.sdk_sig = g.sdk_sig
<1> DEFINE payload == Payload(format, e)
           hits == {x \in SignedEvents : Payload(DeclaredFormat(x), x) = payload}
<1>1. \A x \in SignedEvents : /\ x \in Event /\ DeclaredFormat(x) \in CHAIN_FORMATS_SUPPORTED
                              /\ Unseparated(x.sdk_session_id) /\ Unseparated(x.prev_sig)
  BY SignedIs, SignedAt
<1>2. mode.keyed \/ mode.pinned # {}
  BY DEF Modes
<1>3. Hmac(payload) # Unsigned
  <2>1. CASE mode.keyed
    <3>1. Hmac(payload) = e.sdk_sig
      BY <2>1 DEF Checks, SignatureMatches
    <3>2. e.sdk_sig \in Nat \cup {NoSig}
      BY DEF Event
    <3> QED
      BY <3>1, <3>2 DEF Unsigned, NoSig
  <2>2. CASE mode.pinned # {}
    <3>1. Hmac(payload) = e.device_sig
      BY <2>2 DEF Checks, SealMatches
    <3>2. e.device_sig \in Nat
      BY DEF Event
    <3> QED
      BY <3>1, <3>2 DEF Unsigned
  <2> QED
    BY <1>2, <2>1, <2>2
<1>4. PICK g \in hits : Hmac(payload) = g.sdk_sig
  <2>1. Hmac(payload) = IF hits = {} THEN Unsigned ELSE (CHOOSE x \in hits : TRUE).sdk_sig
    BY DEF SignaturesIdeal, IdealSig
  <2> HIDE DEF hits, payload
  <2>2. hits # {}
    BY <1>3, <2>1
  <2> QED
    BY <2>1, <2>2
<1>5. g \in SignedEvents /\ Payload(DeclaredFormat(g), g) = Payload(format, e)
  BY <1>4
<1>6. mode.keyed => e.sdk_sig = g.sdk_sig
  BY <1>4 DEF Checks, SignatureMatches
<1> HIDE DEF hits, payload
<1>7. e.seq_no = g.seq_no /\ TimeKey(e) = TimeKey(g)
  <2>1. /\ g \in Event /\ DeclaredFormat(g) \in CHAIN_FORMATS_SUPPORTED
        /\ Unseparated(g.sdk_session_id) /\ Unseparated(g.prev_sig)
    BY <1>1, <1>5
  <2> QED
    BY <1>5, <2>1, PayloadTells
<1>8. e.timestamp_sdk = g.timestamp_sdk
  <2>1. g.timestamp_sdk \in Nat \ {0}
    BY <1>5, SignedIs, SignedAt
  <2>2. e.timestamp_sdk \in Nat \cup {NoTime}
    BY DEF Event
  <2> QED
    BY <1>7, <2>1, <2>2 DEF TimeKey, NoTime
<1> QED
  BY <1>5, <1>6, <1>7, <1>8

\* Unless it is of format 1 and its session id holds a separator, it was signed:
\* what its format signs of it is as it was.
LEMMA Genuine ==
  ASSUME SignaturesIdeal, mode \in Modes({DeviceKey}),
         NEW e \in Event, NEW format \in CHAIN_FORMATS_SUPPORTED, Checks(format, e),
         format # 1 \/ Unseparated(e.sdk_session_id)
  PROVE  \E g \in SignedEvents :
           /\ SameEvidence(e, g) /\ DeclaredFormat(g) = format
           /\ mode.keyed => e.sdk_sig = g.sdk_sig
<1>1. PICK g \in SignedEvents :
        /\ Payload(format, e) = Payload(DeclaredFormat(g), g)
        /\ e.seq_no = g.seq_no /\ e.timestamp_sdk = g.timestamp_sdk
        /\ mode.keyed => e.sdk_sig = g.sdk_sig
  BY Vouched
<1>2. /\ g \in Event /\ DeclaredFormat(g) \in CHAIN_FORMATS_SUPPORTED
      /\ Unseparated(g.sdk_session_id) /\ Unseparated(g.prev_sig)
  BY SignedIs, SignedAt
<1>3. /\ format = DeclaredFormat(g)
      /\ e.sdk_session_id = g.sdk_session_id /\ e.prev_sig = g.prev_sig
      /\ e.prompt \o e.response = g.prompt \o g.response
      /\ format >= 2 => e.prompt = g.prompt /\ e.response = g.response
      /\ format >= 3 => e.verdict = g.verdict
      /\ format >= 4 => e.class = g.class
      /\ format >= 5 => e.lineage = g.lineage
  BY <1>1, <1>2, PayloadTells
<1>4. SameEvidence(e, g)
  BY <1>1, <1>3 DEF SameEvidence
<1> QED
  BY <1>1, <1>3, <1>4

\* What was signed passes the checks.
LEMMA SignedPasses ==
  ASSUME SignaturesIdeal, mode \in Modes({DeviceKey}), NEW e \in SignedEvents
  PROVE  Checks(DeclaredFormat(e), e)
<1>1. Hmac(Payload(DeclaredFormat(e), e)) = e.sdk_sig
  BY IdealOfSigned
<1>2. e.sdk_sig \in Nat \ {0} /\ e.device_sig = e.sdk_sig /\ e.device_key_id = DeviceKey
  BY SignedIs, SignedAt
<1>3. mode.pinned # {} => DeviceKey \in mode.pinned
  BY DEF Modes
<1> QED
  BY <1>1, <1>2, <1>3 DEF Checks, SignatureMatches, SealMatches, NoSeal

----------------------------------------------------------------------------
(* The scan.                                                               *)

\* f holds the states of the scan after each prefix of the events.
Scans(f, events) ==
  /\ f[0] = Start
  /\ \A i \in 1..Len(events) : f[i] = Scan(f[i - 1], i, events[i], events[1], mode)

\* A scan has a state after each event, and the verifier computes the last one.
LEMMA ScanExists ==
  ASSUME NEW events, Len(events) \in Nat
  PROVE  \E f : Scans(f, events) /\ Scanned(events, mode) = f[Len(events)]
<1> DEFINE n == Len(events)
           next(st, i) == Scan(st, i, events[i], events[1], mode)
           upto(f, m) == f[0] = Start /\ \A i \in 1..m : f[i] = next(f[i - 1], i)
           G == {m \in 0..n : \E f : upto(f, m)}
<1>1. \A m \in 0..n : m \in G
  <2>1. 0 \in G
    <3>1. upto([i \in {0} |-> Start], 0) /\ 0 \in 0..n
      OBVIOUS
    <3> HIDE DEF upto
    <3> QED
      BY <3>1
  <2>2. ASSUME NEW m \in 1..n, m - 1 \in G PROVE m \in G
    <3>1. PICK f : upto(f, m - 1)
      BY <2>2
    <3> DEFINE last == next(f[m - 1], m)
               g == [i \in 0..m |-> IF i = m THEN last ELSE f[i]]
    <3> HIDE DEF last
    <3>2. g[0] = Start /\ g[m] = last /\ \A i \in 0..(m - 1) : g[i] = f[i]
      BY <3>1
    <3> HIDE DEF g, next
    <3>3. ASSUME NEW i \in 1..m PROVE g[i] = next(g[i - 1], i)
      <4>1. CASE i = m
        BY <3>2, <4>1 DEF last
      <4>2. CASE i # m
        <5>1. i \in 1..(m - 1) /\ i \in 0..(m - 1) /\ i - 1 \in 0..(m - 1)
          BY <4>2
        <5> QED
          BY <3>1, <3>2, <5>1
      <4> QED
        BY <4>1, <4>2
    <3>4. upto(g, m)
      BY <3>2, <3>3
    <3>5. m \in 0..n
      OBVIOUS
    <3> HIDE DEF upto
    <3> QED
      BY <3>4, <3>5
  <2> HIDE DEF G
  <2> QED
    BY <2>1, <2>2, Upwards
<1>2. PICK f : upto(f, n)
  <2>1. n \in 0..n
    OBVIOUS
  <2>2. n \in G
    <3> HIDE DEF G, n
    <3> QED
      BY <1>1, <2>1
  <2> QED
    BY <2>2
<1> DEFINE step(g) == [i \in 0..n |-> IF i = 0 THEN Start ELSE next(g[i - 1], i)]
           after == CHOOSE g : g = step(g)
           w == step(f)
<1> HIDE DEF next
<1>3. \A i \in 0..n : w[i] = f[i]
  BY <1>2
<1>4. step(w) = step(f)
  <2>1. \A i \in 0..n : i # 0 => i - 1 \in 0..n
    OBVIOUS
  <2> HIDE DEF w
  <2> QED
    BY <1>3, <2>1
<1>5. w = step(w)
  BY <1>4
<1>6. after = step(after)
  BY <1>5
<1>7. Scanned(events, mode) = after[n]
  BY DEF Scanned, next
<1> HIDE DEF after
<1>8. upto(after, n)
  BY <1>6
<1> QED
  BY <1>7, <1>8 DEF Scans, next

\* A state of the scan.
IsState(st) ==
  /\ st = [lastSeq |-> st.lastSeq, lastSig |-> st.lastSig, lastTimestamp |-> st.lastTimestamp,
           breaks |-> st.breaks, gapMarkers |-> st.gapMarkers,
           eventsDeclaredLost |-> st.eventsDeclaredLost,
           deviceSignedEvents |-> st.deviceSignedEvents]
  /\ st.gapMarkers \in Nat /\ st.eventsDeclaredLost \in Nat

\* Event e fits at position i, after a scan that reached the state st.
Fits(st, i, e, first) ==
  /\ e.sdk_session_id = first.sdk_session_id
  /\ Checks(DeclaredFormat(first), e)
  /\ Continues(st, i, e)

\* A marker declares a number.
LEMMA DroppedType ==
  ASSUME NEW e \in Event, IsAuditGap(e)
  PROVE  Dropped(e) \in Nat
<1>1. e.prompt \in Seq(Nat) /\ Len(e.prompt) = 2
  BY DEF Event, IsAuditGap
<1> QED
  BY <1>1 DEF Dropped

\* What one step of the scan does: only an event that fits is no break, only an
\* event of the session is an anchor, and only a marker before any break counts.
Steps(st, i, e, first, r) ==
  /\ IsState(r)
  /\ r.breaks = st.breaks \cup (IF Fits(st, i, e, first) THEN {} ELSE {i})
  /\ e.sdk_session_id # first.sdk_session_id =>
       /\ r.lastSeq = st.lastSeq /\ r.lastSig = st.lastSig
       /\ r.lastTimestamp = st.lastTimestamp
  /\ e.sdk_session_id = first.sdk_session_id =>
       /\ r.lastSeq = e.seq_no /\ r.lastSig = e.sdk_sig
       /\ r.lastTimestamp = IF e.timestamp_sdk = NoTime THEN st.lastTimestamp
                                                        ELSE e.timestamp_sdk
  /\ IF r.breaks = {} /\ IsAuditGap(e)
       THEN /\ r.gapMarkers = st.gapMarkers + 1
            /\ r.eventsDeclaredLost = st.eventsDeclaredLost + Dropped(e)
       ELSE /\ r.gapMarkers = st.gapMarkers
            /\ r.eventsDeclaredLost = st.eventsDeclaredLost

\* The scan takes such steps.
LEMMA ScanStep ==
  ASSUME NEW st, IsState(st), NEW i, NEW e \in Event, NEW first,
         NEW r, r = Scan(st, i, e, first, mode)
  PROVE  Steps(st, i, e, first, r)
<1>1. CASE e.sdk_session_id # first.sdk_session_id
  <2>1. r = [st EXCEPT !.breaks = st.breaks \cup {i}]
    BY <1>1 DEF Scan
  <2>2. r = [lastSeq |-> st.lastSeq, lastSig |-> st.lastSig, lastTimestamp |-> st.lastTimestamp,
             breaks |-> st.breaks \cup {i}, gapMarkers |-> st.gapMarkers,
             eventsDeclaredLost |-> st.eventsDeclaredLost,
             deviceSignedEvents |-> st.deviceSignedEvents]
    BY <2>1 DEF IsState
  <2>3. IsState(r)
    BY <2>2 DEF IsState
  <2>4. /\ r.breaks = st.breaks \cup {i} /\ r.breaks # {} /\ r.lastSeq = st.lastSeq
        /\ r.lastSig = st.lastSig /\ r.lastTimestamp = st.lastTimestamp
        /\ r.gapMarkers = st.gapMarkers /\ r.eventsDeclaredLost = st.eventsDeclaredLost
    BY <2>2
  <2>5. ~Fits(st, i, e, first)
    BY <1>1 DEF Fits
  <2> QED
    BY <1>1, <2>3, <2>4, <2>5 DEF Steps
<1>2. CASE e.sdk_session_id = first.sdk_session_id
  <2> DEFINE format == DeclaredFormat(first)
             chained == /\ DeclaredFormat(e) = format
                        /\ Continues(st, i, e)
                        /\ SignatureMatches(mode, format, e)
             broken == IF chained /\ SealMatches(mode, format, e) THEN {} ELSE {i}
             tallied == st.breaks \cup broken = {} /\ IsAuditGap(e)
             seal == IF chained /\ e.device_sig # NoSeal THEN 1 ELSE 0
             time == IF e.timestamp_sdk = NoTime THEN st.lastTimestamp ELSE e.timestamp_sdk
  <2>1. r = [lastSeq |-> e.seq_no, lastSig |-> e.sdk_sig, lastTimestamp |-> time,
             breaks |-> st.breaks \cup broken,
             gapMarkers |-> st.gapMarkers + (IF tallied THEN 1 ELSE 0),
             eventsDeclaredLost |-> st.eventsDeclaredLost + (IF tallied THEN Dropped(e) ELSE 0),
             deviceSignedEvents |-> st.deviceSignedEvents + seal]
    BY <1>2, Zenon DEF Scan
  <2>2. broken = IF Fits(st, i, e, first) THEN {} ELSE {i}
    BY <1>2 DEF Fits, Checks
  <2> HIDE DEF broken, seal, time
  <2>3. r = [lastSeq |-> r.lastSeq, lastSig |-> r.lastSig, lastTimestamp |-> r.lastTimestamp,
             breaks |-> r.breaks, gapMarkers |-> r.gapMarkers,
             eventsDeclaredLost |-> r.eventsDeclaredLost,
             deviceSignedEvents |-> r.deviceSignedEvents]
    BY <2>1
  <2>4. /\ r.lastSeq = e.seq_no /\ r.lastSig = e.sdk_sig /\ r.lastTimestamp = time
        /\ r.breaks = st.breaks \cup broken
        /\ r.gapMarkers = st.gapMarkers + (IF tallied THEN 1 ELSE 0)
        /\ r.eventsDeclaredLost = st.eventsDeclaredLost + (IF tallied THEN Dropped(e) ELSE 0)
    BY <2>1
  <2>5. tallied <=> r.breaks = {} /\ IsAuditGap(e)
    BY <2>4
  <2> HIDE DEF tallied
  <2>6. IF tallied THEN /\ r.gapMarkers = st.gapMarkers + 1
                        /\ r.eventsDeclaredLost = st.eventsDeclaredLost + Dropped(e)
                   ELSE /\ r.gapMarkers = st.gapMarkers
                        /\ r.eventsDeclaredLost = st.eventsDeclaredLost
    BY <2>4 DEF IsState
  <2>7. IsState(r)
    BY <2>3, <2>5, <2>6, DroppedType DEF IsState
  <2> QED
    BY <1>2, <2>2, <2>4, <2>5, <2>6, <2>7 DEF time, Steps
<1> QED
  BY <1>1, <1>2

\* So does the step from one state of the scan to the next.
LEMMA StepAt ==
  ASSUME NEW events \in Seq(Event), NEW f, Scans(f, events), NEW i \in 1..Len(events),
         IsState(f[i - 1])
  PROVE  Steps(f[i - 1], i, events[i], events[1], f[i]) /\ events[i] \in Event
<1>1. f[i] = Scan(f[i - 1], i, events[i], events[1], mode)
  BY DEF Scans
<1>2. events[i] \in Event
  OBVIOUS
<1> QED
  BY <1>1, <1>2, ScanStep

\* The positions up to i that do not fit.
Misfits(f, events, i) == {j \in 1..i : ~Fits(f[j - 1], j, events[j], events[1])}

\* The breaks found so far are the positions that do not fit.
LEMMA ScanBreaks ==
  ASSUME NEW events \in Seq(Event), NEW f, Scans(f, events)
  PROVE  \A i \in 0..Len(events) : IsState(f[i]) /\ f[i].breaks = Misfits(f, events, i)
<1> DEFINE n == Len(events)
           G == {i \in 0..n : IsState(f[i]) /\ f[i].breaks = Misfits(f, events, i)}
<1>1. n \in Nat
  OBVIOUS
<1>2. 0 \in G
  <2>1. IsState(f[0]) /\ f[0].breaks = {}
    BY DEF Scans, Start, IsState
  <2>2. Misfits(f, events, 0) = {}
    BY DEF Misfits
  <2>3. 0 \in 0..n
    BY <1>1
  <2> QED
    BY <2>1, <2>2, <2>3
<1>3. ASSUME NEW i \in 1..n, i - 1 \in G PROVE i \in G
  <2>1. IsState(f[i - 1]) /\ f[i - 1].breaks = Misfits(f, events, i - 1)
    BY <1>3
  <2>3. /\ IsState(f[i])
        /\ f[i].breaks = f[i - 1].breaks
                           \cup (IF Fits(f[i - 1], i, events[i], events[1]) THEN {} ELSE {i})
    BY <2>1, StepAt DEF Steps
  <2>4. Misfits(f, events, i) = Misfits(f, events, i - 1)
                           \cup (IF Fits(f[i - 1], i, events[i], events[1]) THEN {} ELSE {i})
    BY DEF Misfits
  <2>5. i \in 0..n
    OBVIOUS
  <2> QED
    BY <2>1, <2>3, <2>4, <2>5
<1> HIDE DEF G
<1>4. \A i \in 0..n : i \in G
  BY <1>1, <1>2, <1>3, Upwards
<1> QED
  BY <1>4 DEF G

\* The positions up to i whose events are of the first event's session.
Mine(events, i) == {j \in 1..i : events[j].sdk_session_id = events[1].sdk_session_id}

\* The state is the last event of the session, whether or not it was a break.
LEMMA Anchored ==
  ASSUME NEW events \in Seq(Event), NEW f, Scans(f, events),
         NEW i \in 0..Len(events), NEW p \in Mine(events, i), \A j \in Mine(events, i) : j <= p
  PROVE  /\ f[i].lastSeq = events[p].seq_no /\ f[i].lastSig = events[p].sdk_sig
         /\ events[p].timestamp_sdk # NoTime => f[i].lastTimestamp = events[p].timestamp_sdk
<1> DEFINE n == Len(events)
           At(k, q) == /\ f[k].lastSeq = events[q].seq_no /\ f[k].lastSig = events[q].sdk_sig
                       /\ events[q].timestamp_sdk # NoTime =>
                            f[k].lastTimestamp = events[q].timestamp_sdk
           Good(k) == \A q \in Mine(events, k) : (\A j \in Mine(events, k) : j <= q) => At(k, q)
           G == {k \in 0..n : Good(k)}
<1>1. n \in Nat
  OBVIOUS
<1>2. 0 \in G
  <2>1. Mine(events, 0) = {} /\ 0 \in 0..n
    BY <1>1 DEF Mine
  <2> QED
    BY <2>1
<1>3. ASSUME NEW k \in 1..n, k - 1 \in G PROVE k \in G
  <2>1. Good(k - 1) /\ k \in 0..n /\ k - 1 \in 0..n
    BY <1>3
  <2>2. IsState(f[k - 1])
    BY <2>1, ScanBreaks
  <2>3. events[k] \in Event
    BY <2>2, StepAt DEF Steps
  <2>4. /\ events[k].sdk_session_id # events[1].sdk_session_id =>
              /\ f[k].lastSeq = f[k - 1].lastSeq /\ f[k].lastSig = f[k - 1].lastSig
              /\ f[k].lastTimestamp = f[k - 1].lastTimestamp
        /\ events[k].sdk_session_id = events[1].sdk_session_id =>
              /\ f[k].lastSeq = events[k].seq_no /\ f[k].lastSig = events[k].sdk_sig
              /\ f[k].lastTimestamp = IF events[k].timestamp_sdk = NoTime
                                        THEN f[k - 1].lastTimestamp ELSE events[k].timestamp_sdk
    BY <2>2, StepAt DEF Steps
  <2>5. CASE events[k].sdk_session_id # events[1].sdk_session_id
    <3>1. Mine(events, k) = Mine(events, k - 1)
      BY <2>5 DEF Mine
    <3>2. \A q : At(k - 1, q) => At(k, q)
      BY <2>4, <2>5
    <3> HIDE DEF At
    <3>3. Good(k)
      BY <2>1, <3>1, <3>2
    <3> QED
      BY <2>1, <3>3
  <2>6. CASE events[k].sdk_session_id = events[1].sdk_session_id
    <3>1. k \in Mine(events, k) /\ \A q \in Mine(events, k) : q <= k /\ q \in Nat
      BY <2>6 DEF Mine
    <3>2. At(k, k)
      BY <2>4, <2>6
    <3> HIDE DEF At
    <3>3. Good(k)
      <4>1. SUFFICES ASSUME NEW q \in Mine(events, k), \A j \in Mine(events, k) : j <= q
            PROVE  At(k, q)
        OBVIOUS
      <4>2. q = k
        BY <3>1, <4>1
      <4> QED
        BY <3>2, <4>2
    <3> QED
      BY <2>1, <3>3
  <2> QED
    BY <2>5, <2>6
<1> HIDE DEF G
<1>4. \A k \in 0..n : k \in G
  BY <1>1, <1>2, <1>3, Upwards
<1>5. Good(i)
  BY <1>4 DEF G
<1> QED
  BY <1>5

\* The markers before any break, up to position i, and what they declare.
Counted(f, events, i) == {j \in 1..i : f[j].breaks = {} /\ IsAuditGap(events[j])}
Claims(events) == [j \in 1..Len(events) |-> Dropped(events[j])]

\* The tallies count exactly these.
LEMMA ScanTallies ==
  ASSUME NEW events \in Seq(Event), NEW f, Scans(f, events), NEW i \in 0..Len(events)
  PROVE  /\ IsFiniteSet(Counted(f, events, i))
         /\ f[i].gapMarkers = Cardinality(Counted(f, events, i))
         /\ f[i].eventsDeclaredLost = Total(Claims(events), Counted(f, events, i))
<1> DEFINE n == Len(events)
           Good(k) == /\ IsFiniteSet(Counted(f, events, k))
                      /\ f[k].gapMarkers = Cardinality(Counted(f, events, k))
                      /\ f[k].eventsDeclaredLost = Total(Claims(events), Counted(f, events, k))
           G == {k \in 0..n : Good(k)}
<1>1. n \in Nat
  OBVIOUS
<1>2. 0 \in G
  <2>1. Counted(f, events, 0) = {} /\ 0 \in 0..n
    BY <1>1 DEF Counted
  <2>2. f[0].gapMarkers = 0 /\ f[0].eventsDeclaredLost = 0
    BY DEF Scans, Start
  <2>3. IsFiniteSet({}) /\ Cardinality({}) = 0
    BY FS_EmptySet
  <2>4. Total(Claims(events), {}) = 0
    BY <2>3, TotalRemoves
  <2>5. Good(0)
    BY <2>1, <2>2, <2>3, <2>4
  <2> HIDE DEF Good
  <2> QED
    BY <2>1, <2>5
<1>3. ASSUME NEW k \in 1..n, k - 1 \in G PROVE k \in G
  <2>1. Good(k - 1) /\ k \in 0..n /\ k - 1 \in 0..n
    BY <1>3
  <2>2. IsState(f[k - 1])
    BY <2>1, ScanBreaks
  <2>3. events[k] \in Event
    BY <2>2, StepAt DEF Steps
  <2>4. IF f[k].breaks = {} /\ IsAuditGap(events[k])
          THEN /\ f[k].gapMarkers = f[k - 1].gapMarkers + 1
               /\ f[k].eventsDeclaredLost = f[k - 1].eventsDeclaredLost + Dropped(events[k])
          ELSE /\ f[k].gapMarkers = f[k - 1].gapMarkers
               /\ f[k].eventsDeclaredLost = f[k - 1].eventsDeclaredLost
    BY <2>2, StepAt DEF Steps
  <2>5. CASE ~(f[k].breaks = {} /\ IsAuditGap(events[k]))
    <3>1. Counted(f, events, k) = Counted(f, events, k - 1)
      BY <2>5 DEF Counted
    <3>2. Good(k)
      BY <2>1, <2>4, <2>5, <3>1
    <3> HIDE DEF Good
    <3> QED
      BY <2>1, <3>2
  <2>6. CASE f[k].breaks = {} /\ IsAuditGap(events[k])
    <3> DEFINE C == Counted(f, events, k - 1)
    <3>1. Counted(f, events, k) = C \cup {k} /\ k \notin C
      BY <2>6 DEF Counted
    <3>2. IsFiniteSet(C) /\ f[k - 1].gapMarkers = Cardinality(C)
          /\ f[k - 1].eventsDeclaredLost = Total(Claims(events), C)
      BY <2>1
    <3>3. Claims(events)[k] \in Nat /\ Claims(events)[k] = Dropped(events[k])
      BY <2>3, <2>6, DroppedType DEF Claims
    <3>4. ASSUME NEW j \in C PROVE Claims(events)[j] \in Nat
      <4>1. j \in 1..n /\ IsAuditGap(events[j]) /\ events[j] \in Event
        BY DEF Counted
      <4> QED
        BY <4>1, DroppedType DEF Claims
    <3> HIDE DEF C
    <3>5. IsFiniteSet(C \cup {k}) /\ Cardinality(C \cup {k}) = Cardinality(C) + 1
      BY <3>1, <3>2, FS_AddElement
    <3>6. Total(Claims(events), C \cup {k}) = Total(Claims(events), C) + Claims(events)[k]
      BY <3>1, <3>2, <3>3, <3>4, TotalAdds
    <3>7. Good(k)
      BY <2>4, <2>6, <3>1, <3>2, <3>3, <3>5, <3>6
    <3> HIDE DEF Good
    <3> QED
      BY <2>1, <3>7
  <2> QED
    BY <2>5, <2>6
<1> HIDE DEF G
<1>4. \A k \in 0..n : k \in G
  BY <1>1, <1>2, <1>3, Upwards
<1>5. Good(i)
  BY <1>4 DEF G
<1> QED
  BY <1>5

\* The verifier reports what the scan ends with.
LEMMA ReportIs ==
  ASSUME NEW events, NEW st,
         st = IF events = <<>> THEN Start
              ELSE IF ~Supported(events[1]) THEN [Start EXCEPT !.breaks = {1}]
              ELSE Scanned(events, mode)
  PROVE  LET r == VerifyAuditChain(events, mode) IN
           /\ r.valid <=> st.breaks = {}
           /\ r.breaks = st.breaks
           /\ r.eventsVerified = IF st.breaks = {} THEN Len(events)
                ELSE (CHOOSE i \in st.breaks : \A j \in st.breaks : i <= j) - 1
           /\ r.gapMarkers = st.gapMarkers
           /\ r.eventsDeclaredLost = st.eventsDeclaredLost
<1> DEFINE last == IF events = <<>> THEN Start
                   ELSE IF ~Supported(events[1]) THEN [Start EXCEPT !.breaks = {1}]
                   ELSE Scanned(events, mode)
           low == IF last.breaks = {} THEN Len(events)
                  ELSE (CHOOSE i \in last.breaks : \A j \in last.breaks : i <= j) - 1
           none == last.breaks = {}
<1>1. VerifyAuditChain(events, mode)
        = [valid |-> none, breaks |-> last.breaks, eventsVerified |-> low,
           gapMarkers |-> last.gapMarkers, eventsDeclaredLost |-> last.eventsDeclaredLost,
           deviceSignedEvents |-> last.deviceSignedEvents]
  BY DEF VerifyAuditChain
<1>2. st = last
  OBVIOUS
<1> HIDE DEF low, none, last
<1>3. LET r == VerifyAuditChain(events, mode) IN
        /\ r.valid = none /\ r.breaks = last.breaks /\ r.eventsVerified = low
        /\ r.gapMarkers = last.gapMarkers /\ r.eventsDeclaredLost = last.eventsDeclaredLost
  BY <1>1
<1> QED
  BY <1>2, <1>3 DEF low, none

\* What the verifier reports of a chain of a format it supports.
LEMMA Verified ==
  ASSUME NEW events \in Seq(Event), events # <<>>, Supported(events[1])
  PROVE  \E f :
           /\ Scans(f, events)
           /\ VerifyAuditChain(events, mode).breaks = Misfits(f, events, Len(events))
           /\ VerifyAuditChain(events, mode).valid <=> Misfits(f, events, Len(events)) = {}
           /\ VerifyAuditChain(events, mode).gapMarkers
                = Cardinality(Counted(f, events, Len(events)))
           /\ VerifyAuditChain(events, mode).eventsDeclaredLost
                = Total(Claims(events), Counted(f, events, Len(events)))
           /\ Counted(f, events, Len(events))
                = {j \in 1..VerifyAuditChain(events, mode).eventsVerified : IsAuditGap(events[j])}
           /\ VerifyAuditChain(events, mode).eventsVerified \in 0..Len(events)
           /\ VerifyAuditChain(events, mode).valid =>
                VerifyAuditChain(events, mode).eventsVerified = Len(events)
           /\ \A j \in 1..VerifyAuditChain(events, mode).eventsVerified :
                Fits(f[j - 1], j, events[j], events[1])
<1> DEFINE n == Len(events)
           r == VerifyAuditChain(events, mode)
<1>1. n \in Nat /\ n > 0
  BY EmptySeq
<1>2. PICK f : Scans(f, events) /\ Scanned(events, mode) = f[n]
  BY ScanExists
<1> DEFINE misfits == Misfits(f, events, n)
<1>3. /\ r.valid <=> f[n].breaks = {}
      /\ r.breaks = f[n].breaks
      /\ r.eventsVerified = IF f[n].breaks = {} THEN n
                            ELSE (CHOOSE i \in f[n].breaks : \A j \in f[n].breaks : i <= j) - 1
      /\ r.gapMarkers = f[n].gapMarkers
      /\ r.eventsDeclaredLost = f[n].eventsDeclaredLost
  BY <1>2, ReportIs
<1>4. \A i \in 0..n : f[i].breaks = Misfits(f, events, i)
  BY <1>2, ScanBreaks
<1>5. f[n].breaks = misfits
  BY <1>1, <1>4
<1>6. /\ f[n].gapMarkers = Cardinality(Counted(f, events, n))
      /\ f[n].eventsDeclaredLost = Total(Claims(events), Counted(f, events, n))
  BY <1>1, <1>2, ScanTallies
<1>7. misfits \subseteq 1..n
  BY DEF Misfits
<1>8. \A j \in 1..n : f[j].breaks = {} <=> \A i \in misfits : j < i
  <2>1. SUFFICES ASSUME NEW j \in 1..n
                 PROVE  Misfits(f, events, j) = {} <=> \A i \in misfits : j < i
    BY <1>4
  <2>2. Misfits(f, events, j) = {i \in misfits : i <= j}
    BY DEF Misfits
  <2>3. \A i \in misfits : i <= j <=> ~(j < i)
    BY <1>7
  <2> HIDE DEF misfits
  <2>4. {i \in misfits : i <= j} = {} <=> \A i \in misfits : ~(i <= j)
    OBVIOUS
  <2> QED
    BY <2>2, <2>3, <2>4
<1>9. /\ r.eventsVerified \in 0..n
      /\ \A j \in 1..n : j <= r.eventsVerified <=> \A i \in misfits : j < i
  <2>1. CASE misfits = {}
    BY <1>1, <1>3, <1>5, <2>1
  <2>2. CASE misfits # {}
    <3> DEFINE low == CHOOSE i \in misfits : \A j \in misfits : i <= j
    <3> HIDE DEF misfits
    <3>1. \E i \in misfits : \A j \in misfits : ~(j < i)
      <4>1. misfits \subseteq Nat
        BY <1>1, <1>7
      <4> QED
        BY <2>2, <4>1, LeastOf
    <3>2. low \in misfits /\ \A j \in misfits : low <= j
      <4>1. \E i \in misfits : \A j \in misfits : i <= j
        BY <1>7, <3>1
      <4> QED
        BY <4>1
    <3>3. r.eventsVerified = low - 1
      BY <1>3, <1>5, <2>2
    <3> HIDE DEF low
    <3> QED
      BY <1>1, <1>7, <3>2, <3>3
  <2> QED
    BY <2>1, <2>2
<1> HIDE DEF misfits
<1>10. Counted(f, events, n) = {j \in 1..r.eventsVerified : IsAuditGap(events[j])}
  <2>1. Counted(f, events, n) = {j \in 1..n : j <= r.eventsVerified /\ IsAuditGap(events[j])}
    BY <1>8, <1>9 DEF Counted
  <2> HIDE DEF r
  <2> QED
    BY <1>1, <1>9, <2>1
<1> HIDE DEF r
<1>11. /\ r.breaks = misfits /\ (r.valid <=> misfits = {})
       /\ r.gapMarkers = Cardinality(Counted(f, events, n))
       /\ r.eventsDeclaredLost = Total(Claims(events), Counted(f, events, n))
       /\ r.eventsVerified \in 0..n
  BY <1>3, <1>5, <1>6, <1>9
<1>12. \A j \in 1..r.eventsVerified : Fits(f[j - 1], j, events[j], events[1])
  <2>1. SUFFICES ASSUME NEW j \in 1..n, j <= r.eventsVerified
                 PROVE  Fits(f[j - 1], j, events[j], events[1])
    BY <1>1, <1>11
  <2>2. j \notin misfits
    BY <1>9, <2>1
  <2> QED
    BY <2>2 DEF misfits, Misfits
<1>13. r.valid => r.eventsVerified = n
  BY <1>3 DEF r
<1> QED
  BY <1>2, <1>10, <1>11, <1>12, <1>13 DEF r, misfits


----------------------------------------------------------------------------
(* A valid chain is genuine.                                               *)

\* An unsupported format is a break.
LEMMA ValidIsSupported ==
  ASSUME NEW events, events # <<>>, ~Supported(events[1])
  PROVE  /\ ~VerifyAuditChain(events, mode).valid
         /\ VerifyAuditChain(events, mode).eventsVerified = 0
         /\ VerifyAuditChain(events, mode).gapMarkers = 0
         /\ VerifyAuditChain(events, mode).eventsDeclaredLost = 0
<1> DEFINE st == [Start EXCEPT !.breaks = {1}]
<1>1. st.breaks = {1} /\ st.gapMarkers = 0 /\ st.eventsDeclaredLost = 0
  BY DEF Start
<1>2. (CHOOSE i \in {1} : \A j \in {1} : i <= j) = 1
  OBVIOUS
<1> HIDE DEF st
<1>3. /\ VerifyAuditChain(events, mode).valid <=> st.breaks = {}
      /\ VerifyAuditChain(events, mode).eventsVerified
           = IF st.breaks = {} THEN Len(events)
             ELSE (CHOOSE i \in st.breaks : \A j \in st.breaks : i <= j) - 1
      /\ VerifyAuditChain(events, mode).gapMarkers = st.gapMarkers
      /\ VerifyAuditChain(events, mode).eventsDeclaredLost = st.eventsDeclaredLost
  <2>1. st = IF events = <<>> THEN Start
             ELSE IF ~Supported(events[1]) THEN [Start EXCEPT !.breaks = {1}]
             ELSE Scanned(events, mode)
    BY DEF st
  <2> QED
    BY <2>1, ReportIs
<1>4. ~(st.breaks = {})
  BY <1>1
<1>5. (CHOOSE i \in st.breaks : \A j \in st.breaks : i <= j) = 1
  BY <1>1, <1>2
<1> QED
  BY <1>1, <1>3, <1>4, <1>5

\* The events are, in order, those of session s after position from: as signed,
\* of the format of the first, and with the very signatures when they are checked.
\* Their clock never moves back.
Reads(events, s, from) ==
  /\ \A i \in 1..Len(events) :
       /\ from + i \in DOMAIN Log[s]
       /\ SameEvidence(events[i], Log[s][from + i])
       /\ DeclaredFormat(events[i]) = DeclaredFormat(events[1])
       /\ DeclaredFormat(events[i]) = DeclaredFormat(Log[s][from + i])
       /\ mode.keyed => events[i].sdk_sig = Log[s][from + i].sdk_sig
  /\ \A i \in 2..Len(events) : events[i].timestamp_sdk >= events[i - 1].timestamp_sdk

\* What a valid chain is, if it is not one of format 1 under a session id that
\* holds a separator.
LEMMA ValidChain ==
  ASSUME SignaturesIdeal, mode \in Modes({DeviceKey}),
         NEW events \in Seq(Event), events # <<>>, VerifyAuditChain(events, mode).valid,
         ~Respelled(events)
  PROVE  \E s \in DOMAIN Log : \E from \in 0..(Len(Log[s]) - Len(events)) :
           Reads(events, s, from)
<1> DEFINE n == Len(events)
           format == DeclaredFormat(events[1])
           s == events[1].sdk_session_id
           at(i) == events[i].seq_no
<1>1. n \in Nat /\ n > 0
  BY EmptySeq
<1>2. Supported(events[1])
  BY ValidIsSupported
<1>3. PICK f : Scans(f, events) /\ Misfits(f, events, n) = {}
  BY <1>2, Verified
<1>4. \A i \in 1..n : Fits(f[i - 1], i, events[i], events[1])
  BY <1>3 DEF Misfits
<1>5. format \in CHAIN_FORMATS_SUPPORTED
  BY <1>2 DEF Supported
<1>6. \A i \in 1..n : events[i] \in Event
  OBVIOUS
<1>7. ASSUME NEW i \in 1..n
      PROVE  \E g \in SignedEvents :
               /\ SameEvidence(events[i], g) /\ DeclaredFormat(g) = format
               /\ mode.keyed => events[i].sdk_sig = g.sdk_sig
  <2>1. Checks(format, events[i])
    BY <1>4 DEF Fits
  <2>2. format # 1 \/ Unseparated(events[i].sdk_session_id)
    BY <1>4 DEF Fits, Respelled
  <2> HIDE DEF format
  <2> QED
    BY <1>5, <1>6, <2>1, <2>2, Genuine
<1>8. \A i \in 1..n : events[i].sdk_session_id = s /\ DeclaredFormat(events[i]) = format
  BY <1>4 DEF Fits, Checks
<1>9. ASSUME NEW i \in 1..n
      PROVE  /\ s \in DOMAIN Log /\ at(i) \in DOMAIN Log[s]
             /\ SameEvidence(events[i], Log[s][at(i)])
             /\ DeclaredFormat(Log[s][at(i)]) = format
             /\ mode.keyed => events[i].sdk_sig = Log[s][at(i)].sdk_sig
  <2>1. PICK g \in SignedEvents : /\ SameEvidence(events[i], g) /\ DeclaredFormat(g) = format
                                  /\ mode.keyed => events[i].sdk_sig = g.sdk_sig
    BY <1>7
  <2>2. g.sdk_session_id = s /\ g.seq_no = at(i)
    BY <1>8, <2>1 DEF SameEvidence
  <2>3. s \in DOMAIN Log /\ at(i) \in DOMAIN Log[s] /\ g = Log[s][at(i)]
    BY <2>2, SignedIs
  <2> QED
    BY <2>1, <2>3
<1>10. s \in DOMAIN Log /\ Log[s] \in Seq(Event) /\ Len(Log[s]) \in Nat /\ at(1) \in DOMAIN Log[s]
  BY <1>1, <1>9, SignedAt
<1> DEFINE L == Len(Log[s])
<1>11. \A i \in 1..n : at(i) \in 1..L
  BY <1>9, <1>10
<1>12. ASSUME NEW i \in 2..n
       PROVE  /\ at(i) = at(i - 1) + 1
              /\ events[i].timestamp_sdk >= events[i - 1].timestamp_sdk
  <2>1. i - 1 \in 0..n /\ i - 1 \in 1..n /\ i \in 1..n
    BY <1>1
  <2>2. i - 1 \in Mine(events, i - 1) /\ \A j \in Mine(events, i - 1) : j <= i - 1
    BY <1>8, <2>1 DEF Mine
  <2>3. f[i - 1].lastSeq = at(i - 1)
    BY <1>3, <2>1, <2>2, Anchored
  <2>4. Continues(f[i - 1], i, events[i])
    BY <1>4, <2>1 DEF Fits
  <2>5. at(i - 1) \in 1..L
    BY <1>11, <2>1
  <2>6. f[i - 1].lastSeq # NoSeq
    BY <1>10, <2>3, <2>5 DEF NoSeq
  <2>7. at(i) = f[i - 1].lastSeq + 1
    BY <2>4, <2>6 DEF Continues
  <2>8. events[i - 1].timestamp_sdk \in Nat \ {0} /\ events[i].timestamp_sdk \in Nat \ {0}
    <3>1. \A j \in 1..n : events[j].timestamp_sdk = Log[s][at(j)].timestamp_sdk
      BY <1>9 DEF SameEvidence
    <3>2. \A j \in 1..n : Log[s][at(j)].timestamp_sdk \in Nat \ {0}
      BY <1>9, SignedAt
    <3> QED
      BY <2>1, <3>1, <3>2
  <2>9. f[i - 1].lastTimestamp = events[i - 1].timestamp_sdk
    BY <1>3, <2>1, <2>2, <2>8, Anchored DEF NoTime
  <2>10. events[i].timestamp_sdk >= f[i - 1].lastTimestamp
    BY <2>4, <2>8 DEF Continues, NoTime
  <2> QED
    BY <2>3, <2>7, <2>9, <2>10
<1> DEFINE from == at(1) - 1
<1>13. \A i \in 1..n : at(i) = from + i
  <2> DEFINE G == {0} \cup {i \in 1..n : at(i) = from + i}
  <2>1. 0 \in G
    OBVIOUS
  <2>2. ASSUME NEW i \in 1..n, i - 1 \in G PROVE i \in G
    <3>1. at(1) \in Nat
      BY <1>1, <1>10, <1>11
    <3>2. CASE i = 1
      BY <3>1, <3>2
    <3>3. CASE i # 1
      <4>1. i \in 2..n /\ at(i - 1) = from + (i - 1)
        BY <2>2, <3>3
      <4>2. at(i) = at(i - 1) + 1
        BY <1>12, <4>1
      <4> HIDE DEF at, from
      <4>3. from \in Int
        BY <3>1 DEF from
      <4>4. at(i) = from + i
        BY <4>1, <4>2, <4>3
      <4> QED
        BY <4>4
    <3> QED
      BY <3>2, <3>3
  <2> HIDE DEF G
  <2>3. \A i \in 0..n : i \in G
    BY <1>1, <2>1, <2>2, Upwards
  <2> QED
    BY <2>3 DEF G
<1>14. from \in 0..(L - n)
  <2>1. at(1) \in 1..L /\ at(n) \in 1..L /\ at(n) = from + n /\ L \in Nat
    BY <1>1, <1>10, <1>11, <1>13
  <2> HIDE DEF at, L, n, s
  <2>2. ASSUME NEW x \in 1..L, NEW y \in 1..L, y = (x - 1) + n PROVE x - 1 \in 0..(L - n)
    BY <1>1, <2>1, <2>2
  <2> QED
    BY <2>1, <2>2
<1>15. Reads(events, s, from)
  <2> SUFFICES ASSUME NEW i \in 1..n
               PROVE  /\ from + i \in DOMAIN Log[s]
                      /\ SameEvidence(events[i], Log[s][from + i])
                      /\ DeclaredFormat(events[i]) = DeclaredFormat(events[1])
                      /\ DeclaredFormat(events[i]) = DeclaredFormat(Log[s][from + i])
                      /\ mode.keyed => events[i].sdk_sig = Log[s][from + i].sdk_sig
    BY <1>12 DEF Reads
  <2>1. at(i) = from + i
    BY <1>13
  <2> HIDE DEF at, from
  <2> QED
    BY <1>8, <1>9, <2>1
<1> QED
  BY <1>10, <1>14, <1>15


----------------------------------------------------------------------------
(* A genuine chain is valid.                                               *)

\* A run of consecutive events of a session fits, wherever it starts.
LEMMA SegmentIsValid ==
  ASSUME SignaturesIdeal, mode \in Modes({DeviceKey}),
         NEW s \in DOMAIN Log, ClockForward(s), NEW a \in DOMAIN Log[s], NEW b \in DOMAIN Log[s]
  PROVE  VerifyAuditChain(SubSeq(Log[s], a, b), mode).valid
<1> DEFINE events == SubSeq(Log[s], a, b)
           n == Len(events)
           g(i) == Log[s][a + i - 1]
<1>1. Log[s] \in Seq(Event) /\ a \in 1..Len(Log[s]) /\ b \in 1..Len(Log[s])
  BY SignedAt
<1>2. /\ events \in Seq(Event)
      /\ n = IF a <= b THEN b - a + 1 ELSE 0
      /\ \A i \in 1..n : events[i] = g(i)
  BY <1>1, SubSeqProperties
<1> HIDE DEF events, n
<1>3. CASE a > b
  <2>1. n = 0
    BY <1>1, <1>2, <1>3
  <2>2. events = <<>>
    BY <1>2, <2>1, EmptySeq DEF n
  <2>3. Start.breaks = {}
    BY DEF Start
  <2> QED
    BY <2>2, <2>3, ReportIs DEF events
<1>4. CASE a <= b
  <2>1. n \in Nat /\ n > 0 /\ events # <<>> /\ a + n - 1 = b /\ Len(Log[s]) \in Nat /\ a \in Nat
    BY <1>1, <1>2, <1>4, EmptySeq DEF n
  <2>2. ASSUME NEW i \in 1..n
        PROVE  /\ a + i - 1 \in 1..Len(Log[s]) /\ a + i - 1 \in DOMAIN Log[s]
               /\ events[i] = g(i) /\ i - 1 \in 0..n
    <3>1. a + i - 1 \in 1..Len(Log[s]) /\ i - 1 \in 0..n
      BY <1>1, <2>1
    <3>2. DOMAIN Log[s] = 1..Len(Log[s])
      BY <1>1
    <3>3. events[i] = g(i)
      BY <1>2
    <3> QED
      BY <3>1, <3>2, <3>3
  <2>3. ASSUME NEW i \in 1..n
        PROVE  /\ events[i] \in SignedEvents /\ events[i].sdk_session_id = s
               /\ events[i].seq_no = a + i - 1 /\ events[i].timestamp_sdk \in Nat \ {0}
               /\ DeclaredFormat(events[i]) = DeclaredFormat(Log[s][1])
               /\ DeclaredFormat(events[i]) \in CHAIN_FORMATS_SUPPORTED
    BY <2>2, SignedAt
  <2>4. Supported(events[1])
    <3>1. 1 \in 1..n
      BY <2>1
    <3>2. DeclaredFormat(events[1]) \in CHAIN_FORMATS_SUPPORTED
      BY <2>3, <3>1
    <3> QED
      BY <3>2 DEF Supported
  <2>5. PICK f : /\ Scans(f, events)
                 /\ VerifyAuditChain(events, mode).valid <=> Misfits(f, events, n) = {}
    BY <1>2, <2>1, <2>4, Verified DEF n
  <2>6. ASSUME NEW i \in 1..n PROVE Fits(f[i - 1], i, events[i], events[1])
    <3>1. 1 \in 1..n
      BY <2>1
    <3>2. events[i].sdk_session_id = events[1].sdk_session_id
      BY <2>3, <3>1
    <3>3. Checks(DeclaredFormat(events[1]), events[i])
      <4>1. DeclaredFormat(events[i]) = DeclaredFormat(events[1])
        BY <2>3, <3>1
      <4>2. Checks(DeclaredFormat(events[i]), events[i])
        BY <2>3, SignedPasses
      <4> QED
        BY <4>1, <4>2
    <3>4. Continues(f[i - 1], i, events[i])
      <4>1. events[i].seq_no # NoSeq /\ events[i].seq_no >= 1
        BY <2>1, <2>3 DEF NoSeq
      <4>2. CASE i = 1
        <5>1. f[i - 1].lastTimestamp = 0
          BY <2>5, <4>2 DEF Scans, Start
        <5>2. events[i].timestamp_sdk >= f[i - 1].lastTimestamp
          BY <2>3, <5>1
        <5> QED
          BY <4>1, <4>2, <5>2 DEF Continues
      <4>3. CASE i # 1
        <5>1. i - 1 \in 1..n /\ i - 1 \in 0..n
          BY <2>1, <4>3
        <5>2. i - 1 \in Mine(events, i - 1) /\ \A j \in Mine(events, i - 1) : j <= i - 1
          BY <2>3, <3>1, <5>1 DEF Mine
        <5>3. events[i - 1].timestamp_sdk # NoTime
          BY <2>3, <5>1 DEF NoTime
        <5>4. /\ f[i - 1].lastSeq = events[i - 1].seq_no
              /\ f[i - 1].lastSig = events[i - 1].sdk_sig
              /\ f[i - 1].lastTimestamp = events[i - 1].timestamp_sdk
          BY <1>2, <2>5, <5>1, <5>2, <5>3, Anchored DEF n
        <5> DEFINE k == a + i - 1
        <5>5. k \in 2..Len(Log[s]) /\ k - 1 = a + (i - 1) - 1 /\ k \in DOMAIN Log[s] /\ k # 1
          <6>1. a + i - 1 \in 1..Len(Log[s]) /\ a + i - 1 \in DOMAIN Log[s]
            BY <2>2
          <6>2. a \in Nat \ {0} /\ i \in Nat /\ i >= 2
            BY <1>1, <2>1, <4>3
          <6>3. \A x \in 1..Len(Log[s]) : x >= 2 => x \in 2..Len(Log[s]) /\ x # 1
            BY <2>1
          <6>4. a + i - 1 >= 2 /\ (a + i - 1) - 1 = a + (i - 1) - 1
            BY <6>2
          <6> QED
            BY <6>1, <6>3, <6>4
        <5>6. events[i - 1] = Log[s][k - 1] /\ events[i] = Log[s][k]
          BY <2>2, <5>1, <5>5
        <5>7. events[i].seq_no = k /\ events[i - 1].seq_no = k - 1
          BY <2>3, <5>1, <5>5
        <5> HIDE DEF k
        <5>8. Log[s][k].timestamp_sdk >= Log[s][k - 1].timestamp_sdk
          BY <5>5 DEF ClockForward
        <5>9. Log[s][k].prev_sig = Log[s][k - 1].sdk_sig
          BY <5>5, SignedAt
        <5>10. events[i].seq_no = f[i - 1].lastSeq + 1
          BY <5>4, <5>5, <5>7
        <5>11. events[i].timestamp_sdk >= f[i - 1].lastTimestamp
          BY <5>4, <5>6, <5>8
        <5>12. events[i].prev_sig = f[i - 1].lastSig
          BY <5>4, <5>6, <5>9
        <5> QED
          BY <4>1, <4>3, <5>10, <5>11, <5>12 DEF Continues
      <4> QED
        BY <4>2, <4>3
    <3> QED
      BY <3>2, <3>3, <3>4 DEF Fits
  <2>7. Misfits(f, events, n) = {}
    BY <2>6 DEF Misfits
  <2> QED
    BY <2>5, <2>7 DEF events
<1> QED
  BY <1>1, <1>3, <1>4


----------------------------------------------------------------------------
(* Damage stays where it is.                                               *)

\* A set of positions that is not empty has a last one.
LEMMA LastOf ==
  ASSUME NEW n \in Nat, NEW S, S \subseteq 1..n, S # {}
  PROVE  \E p \in S : \A j \in S : j <= p
<1> DEFINE T == {n - j : j \in S}
<1>1. T \subseteq Nat /\ T # {}
  <2>1. \A j \in S : n - j \in Nat
    OBVIOUS
  <2> QED
    BY <2>1
<1>2. PICK x \in T : \A y \in T : ~(y < x)
  <2> HIDE DEF T
  <2> QED
    BY <1>1, LeastOf
<1>3. PICK p \in S : x = n - p
  BY <1>2
<1>4. ASSUME NEW j \in S PROVE j <= p
  <2>1. n - j \in T
    OBVIOUS
  <2>2. ~(n - j < x)
    BY <1>2, <2>1
  <2>3. j \in Int /\ p \in Int
    OBVIOUS
  <2> QED
    BY <1>3, <2>2, <2>3
<1> QED
  BY <1>4

\* Whatever breaks elsewhere, an event that continues the one before it fits.
LEMMA LocalDamage ==
  ASSUME SignaturesIdeal, mode \in Modes({DeviceKey}), bundle \in Seq(Event)
  PROVE  DamageIsLocal
<1> DEFINE n == Len(bundle)
<1>1. SUFFICES ASSUME bundle # <<>>, Supported(bundle[1]), NEW i \in DOMAIN bundle, Before(i) # {}
               PROVE  LET p == CHOOSE j \in Before(i) : \A k \in Before(i) : k <= j IN
                        /\ bundle[i].sdk_session_id = bundle[1].sdk_session_id
                        /\ bundle[i] \in SignedEvents
                        /\ bundle[p].seq_no = bundle[i].seq_no - 1
                        /\ bundle[p].sdk_sig = bundle[i].prev_sig
                        /\ bundle[p].timestamp_sdk \in 0..bundle[i].timestamp_sdk
                        /\ DeclaredFormat(bundle[i]) = DeclaredFormat(bundle[1])
                        => i \notin VerifyAuditChain(bundle, mode).breaks
  BY DEF DamageIsLocal
<1>2. n \in Nat /\ i \in 1..n /\ DOMAIN bundle = 1..n
  BY <1>1
<1>3. Before(i) = Mine(bundle, i - 1)
  BY <1>2 DEF Before, Mine
<1>4. Before(i) \subseteq 1..(i - 1)
  BY DEF Before
<1> DEFINE p == CHOOSE j \in Before(i) : \A k \in Before(i) : k <= j
<1>5. p \in Before(i) /\ \A k \in Before(i) : k <= p
  <2>1. i - 1 \in Nat
    BY <1>2
  <2>2. \E j \in Before(i) : \A k \in Before(i) : k <= j
    BY <1>1, <1>4, <2>1, LastOf
  <2> QED
    BY <2>2
<1> HIDE DEF p
<1>6. SUFFICES ASSUME bundle[i].sdk_session_id = bundle[1].sdk_session_id,
                      bundle[i] \in SignedEvents,
                      bundle[p].seq_no = bundle[i].seq_no - 1,
                      bundle[p].sdk_sig = bundle[i].prev_sig,
                      bundle[p].timestamp_sdk \in 0..bundle[i].timestamp_sdk,
                      DeclaredFormat(bundle[i]) = DeclaredFormat(bundle[1])
               PROVE  i \notin VerifyAuditChain(bundle, mode).breaks
  BY DEF p
<1>7. PICK f : Scans(f, bundle) /\ VerifyAuditChain(bundle, mode).breaks = Misfits(f, bundle, n)
  BY <1>1, Verified
<1>8. i - 1 \in 0..n /\ i - 1 \in Nat /\ i # 1
  BY <1>2, <1>4, <1>5
<1>9. bundle[p].timestamp_sdk # NoTime
  BY <1>6 DEF NoTime
<1>10. /\ f[i - 1].lastSeq = bundle[p].seq_no
       /\ f[i - 1].lastSig = bundle[p].sdk_sig
       /\ f[i - 1].lastTimestamp = bundle[p].timestamp_sdk
  BY <1>3, <1>5, <1>7, <1>8, <1>9, Anchored
<1>11. bundle[i].seq_no \in Nat \ {0} /\ bundle[i].timestamp_sdk \in Nat
  BY <1>6, SignedIs, SignedAt
<1>12. Continues(f[i - 1], i, bundle[i])
  <2>1. bundle[i].seq_no # NoSeq /\ bundle[i].seq_no = f[i - 1].lastSeq + 1
    BY <1>6, <1>10, <1>11 DEF NoSeq
  <2>2. bundle[i].timestamp_sdk >= f[i - 1].lastTimestamp
    BY <1>6, <1>10, <1>11
  <2> QED
    BY <1>6, <1>8, <1>10, <2>1, <2>2 DEF Continues
<1>13. Checks(DeclaredFormat(bundle[1]), bundle[i])
  <2>1. Checks(DeclaredFormat(bundle[i]), bundle[i])
    BY <1>6, SignedPasses
  <2> QED
    BY <1>6, <2>1
<1>14. Fits(f[i - 1], i, bundle[i], bundle[1])
  BY <1>6, <1>12, <1>13 DEF Fits
<1> QED
  BY <1>7, <1>14 DEF Misfits

----------------------------------------------------------------------------
(* The tally.                                                              *)

\* What the positions declare, summed.
LEMMA DeclaredIs ==
  ASSUME NEW S, IsFiniteSet(S), S \subseteq 1..Len(bundle)
  PROVE  Declared(S) = Total(Claims(bundle), S)
<1> DEFINE t == Claims(bundle)
           step(g) == [s \in SUBSET S |-> IF s = {} THEN 0
                         ELSE LET x == CHOOSE y \in s : TRUE IN Dropped(bundle[x]) + g[s \ {x}]]
           iter == CHOOSE g : g = step(g)
<1>1. Declared(S) = iter[S]
  BY DEF Declared, MapThenSumSet, MapThenFoldSet
<1>2. ASSUME NEW g PROVE step(g) = SumStep(t, S, g)
  <2>1. ASSUME NEW s \in SUBSET S, s # {}
        PROVE  t[CHOOSE y \in s : TRUE] = Dropped(bundle[CHOOSE y \in s : TRUE])
    <3>1. (CHOOSE y \in s : TRUE) \in 1..Len(bundle)
      BY <2>1
    <3> QED
      BY <3>1 DEF Claims
  <2> HIDE DEF t
  <2> QED
    BY <2>1 DEF SumStep
<1>3. PICK g : Sums(t, S, g)
  BY SumExists
<1>4. g = step(g)
  BY <1>2, <1>3 DEF Sums
<1>5. iter = step(iter)
  BY <1>4
<1> HIDE DEF iter, step, t
<1>6. Sums(t, S, iter)
  BY <1>2, <1>5 DEF Sums
<1> QED
  BY <1>1, <1>6, TotalIs DEF t


\* The export and what was done to it: until it is edited it holds only what
\* was signed.
ExportInv ==
  /\ bundle \in Seq(Event)
  /\ edits \in Nat
  /\ mode \in Modes({DeviceKey})
  /\ edits = 0 => \A i \in DOMAIN bundle : bundle[i] \in SignedEvents

\* An event that passed the checks of a format that signs the label is a marker
\* just when it is the evidence of a signed one.
LEMMA MarkerIsSigned ==
  ASSUME SignaturesIdeal, mode \in Modes({DeviceKey}), NEW e \in Event,
         NEW format \in CHAIN_FORMATS_SUPPORTED, Checks(format, e), format >= 4
  PROVE  IsAuditGap(e) <=> \E m \in SignedMarkers : SameEvidence(e, m)
<1>1. PICK g \in SignedEvents : SameEvidence(e, g) /\ DeclaredFormat(g) = format
  BY Genuine DEF CHAIN_FORMATS_SUPPORTED
<1>2. e.class = g.class /\ e.prompt = g.prompt
  BY <1>1 DEF SameEvidence, CHAIN_FORMATS_SUPPORTED
<1>3. ASSUME IsAuditGap(e) PROVE g \in SignedMarkers
  BY <1>2, <1>3 DEF IsAuditGap, SignedMarkers
<1>4. ASSUME NEW m \in SignedMarkers, SameEvidence(e, m) PROVE IsAuditGap(e)
  <2>1. m \in SignedEvents /\ m.class = AUDIT_GAP_OPERATION
    BY DEF SignedMarkers
  <2>2. m.sdk_session_id = g.sdk_session_id /\ m.seq_no = g.seq_no
    BY <1>1, <1>4 DEF SameEvidence
  <2>3. m = g
    BY <2>1, <2>2, SignedIs
  <2>4. Len(g.prompt) = 2 /\ g.prompt[1] = 0
    BY <2>1, <2>3, SignedIs, SignedAt
  <2> QED
    BY <1>2, <2>1, <2>3, <2>4 DEF IsAuditGap
<1> QED
  BY <1>1, <1>3, <1>4

\* So is a signed event.
LEMMA SignedMarkerIs ==
  ASSUME NEW e \in SignedEvents
  PROVE  IsAuditGap(e) <=> \E m \in SignedMarkers : SameEvidence(e, m)
<1>1. SameEvidence(e, e)
  BY DEF SameEvidence
<1>2. e.class = AUDIT_GAP_OPERATION => Len(e.prompt) = 2 /\ e.prompt[1] = 0
  BY SignedIs, SignedAt
<1>3. ASSUME NEW m \in SignedMarkers, SameEvidence(e, m) PROVE e = m
  <2>1. m \in SignedEvents
    BY DEF SignedMarkers
  <2>2. m.sdk_session_id = e.sdk_session_id /\ m.seq_no = e.seq_no
    BY <1>3 DEF SameEvidence
  <2> QED
    BY <2>1, <2>2, SignedIs
<1> QED
  BY <1>1, <1>2, <1>3 DEF IsAuditGap, SignedMarkers

\* The tally of a chain counts the signed markers of the prefix that verified.
LEMMA SignedTally ==
  ASSUME SignaturesIdeal, ExportInv
  PROVE  TallyIsSigned
<1> DEFINE result == VerifyAuditChain(bundle, mode)
           markers == {i \in 1..result.eventsVerified :
                         \E m \in SignedMarkers : SameEvidence(bundle[i], m)}
           n == Len(bundle)
<1>1. SUFFICES ASSUME (bundle # <<>> /\ DeclaredFormat(bundle[1]) >= 4) \/ edits = 0
               PROVE  /\ result.gapMarkers = Cardinality(markers)
                      /\ result.eventsDeclaredLost = Declared(markers)
  BY DEF TallyIsSigned
<1>2. bundle \in Seq(Event) /\ mode \in Modes({DeviceKey}) /\ n \in Nat
  BY DEF ExportInv
<1>3. ASSUME result.eventsVerified = 0, result.gapMarkers = 0, result.eventsDeclaredLost = 0
      PROVE  /\ result.gapMarkers = Cardinality(markers)
             /\ result.eventsDeclaredLost = Declared(markers)
  <2>1. markers = {}
    BY <1>3
  <2>2. IsFiniteSet({}) /\ Cardinality({}) = 0 /\ {} \subseteq 1..Len(bundle)
    BY FS_EmptySet
  <2>3. Declared({}) = Total(Claims(bundle), {})
    BY <2>2, DeclaredIs
  <2>4. Total(Claims(bundle), {}) = 0
    BY <2>2, TotalRemoves
  <2> HIDE DEF markers, result
  <2> QED
    BY <1>3, <2>1, <2>2, <2>3, <2>4
<1>4. CASE bundle = <<>>
  <2>1. /\ result.eventsVerified = IF Start.breaks = {} THEN Len(bundle)
             ELSE (CHOOSE i \in Start.breaks : \A j \in Start.breaks : i <= j) - 1
        /\ result.gapMarkers = Start.gapMarkers
        /\ result.eventsDeclaredLost = Start.eventsDeclaredLost
    BY <1>4 DEF VerifyAuditChain
  <2>2. Start.breaks = {} /\ Start.gapMarkers = 0 /\ Start.eventsDeclaredLost = 0
    BY DEF Start
  <2>3. Len(bundle) = 0
    BY <1>4
  <2> QED
    BY <1>3, <2>1, <2>2, <2>3
<1>5. CASE bundle # <<>> /\ ~Supported(bundle[1])
  BY <1>3, <1>5, ValidIsSupported
<1>6. CASE bundle # <<>> /\ Supported(bundle[1])
  <2> DEFINE v == result.eventsVerified
             counted == {j \in 1..v : IsAuditGap(bundle[j])}
             format == DeclaredFormat(bundle[1])
  <2>1. PICK f : /\ result.gapMarkers = Cardinality(Counted(f, bundle, n))
                 /\ result.eventsDeclaredLost = Total(Claims(bundle), Counted(f, bundle, n))
                 /\ Counted(f, bundle, n) = counted
                 /\ v \in 0..n
                 /\ \A j \in 1..v : Fits(f[j - 1], j, bundle[j], bundle[1])
    BY <1>2, <1>6, Verified
  <2>2. format \in CHAIN_FORMATS_SUPPORTED
    BY <1>6 DEF Supported
  <2>3. ASSUME NEW j \in 1..v
        PROVE  IsAuditGap(bundle[j]) <=> \E m \in SignedMarkers : SameEvidence(bundle[j], m)
    <3>1. j \in 1..n
      BY <1>2, <2>1
    <3>2. CASE format >= 4
      <4>1. Checks(format, bundle[j])
        BY <2>1 DEF Fits
      <4>2. bundle[j] \in Event
        BY <1>2, <3>1
      <4> HIDE DEF format
      <4> QED
        BY <1>2, <2>2, <3>2, <4>1, <4>2, MarkerIsSigned
    <3>3. CASE edits = 0
      <4>1. bundle[j] \in SignedEvents
        BY <1>2, <3>1, <3>3 DEF ExportInv
      <4> QED
        BY <4>1, SignedMarkerIs
    <3> QED
      BY <1>1, <3>2, <3>3
  <2>4. counted = markers
    BY <2>3
  <2>5. counted \subseteq 1..n /\ IsFiniteSet(counted)
    <3>1. counted \subseteq 1..n
      BY <1>2, <2>1
    <3>2. IsFiniteSet(1..n)
      BY <1>2, FS_Interval
    <3> HIDE DEF counted
    <3> QED
      BY <3>1, <3>2, FS_Subset
  <2> HIDE DEF counted, markers, result
  <2>6. Declared(counted) = Total(Claims(bundle), counted)
    BY <2>5, DeclaredIs
  <2> QED
    BY <2>1, <2>4, <2>6
<1> QED
  BY <1>4, <1>5, <1>6


----------------------------------------------------------------------------
(* The two tiers.                                                          *)

\* A session of an export: its events, each once.
LEMMA SessionIs ==
  ASSUME bundle \in Seq(Event), NEW sid \in SessionsOf(bundle)
  PROVE  \E m \in Nat \ {0} : \E o \in [1..m -> DOMAIN bundle] :
           /\ {o[k] : k \in 1..m} = {i \in DOMAIN bundle : bundle[i].sdk_session_id = sid}
           /\ SessionEvents(bundle, sid) = [k \in 1..m |-> bundle[o[k]]]
<1> DEFINE n == Len(bundle)
           mine == {i \in DOMAIN bundle : bundle[i].sdk_session_id = sid}
           m == Cardinality(mine)
           Ahead(a, b) == \/ SeqKey(bundle[a]) < SeqKey(bundle[b])
                          \/ SeqKey(bundle[a]) = SeqKey(bundle[b]) /\ a < b
           R == {p \in mine \X mine : Ahead(p[1], p[2])}
           AtPlace(k) == CHOOSE x \in mine : Cardinality({y \in mine : Ahead(y, x)}) = k - 1
           o == [k \in 1..m |-> AtPlace(k)]
<1>1. n \in Nat /\ DOMAIN bundle = 1..n /\ mine \subseteq 1..n /\ mine \subseteq DOMAIN bundle
  OBVIOUS
<1>2. SessionEvents(bundle, sid) = [k \in DOMAIN o |-> bundle[o[k]]]
  <2> DEFINE order == Ranked(mine, LAMBDA a, b :
                        \/ SeqKey(bundle[a]) < SeqKey(bundle[b])
                        \/ SeqKey(bundle[a]) = SeqKey(bundle[b]) /\ a < b)
  <2>1. order = o
    BY DEF Ranked
  <2> HIDE DEF mine, o
  <2>2. SessionEvents(bundle, sid) = [k \in DOMAIN order |-> bundle[order[k]]]
    BY Zenon DEF SessionEvents, mine
  <2> HIDE DEF order
  <2> QED
    BY <2>1, <2>2
<1>3. IsFiniteSet(mine)
  <2>1. IsFiniteSet(1..n)
    BY <1>1, FS_Interval
  <2> HIDE DEF mine
  <2> QED
    BY <1>1, <2>1, FS_Subset
<1>4. mine # {}
  BY DEF SessionsOf
<1>5. \A x \in mine : SeqKey(bundle[x]) \in Nat
  <2>1. \A e \in Event : SeqKey(e) \in Nat
    BY DEF SeqKey, Event, NoSeq
  <2>2. \A x \in DOMAIN bundle : bundle[x] \in Event
    OBVIOUS
  <2> QED
    BY <2>1, <2>2
<1>6. \A x, y \in mine : <<x, y>> \in R <=> Ahead(x, y)
  OBVIOUS
<1>7. Orders(R, mine)
  <2>1. \A x \in mine : x \in Int
    BY <1>1
  <2> HIDE DEF R, mine
  <2> QED
    BY <1>5, <1>6, <2>1 DEF Orders
<1>8. RanksBy(o, R, mine)
  <2>1. ASSUME NEW k \in 1..m, NEW x \in mine, Cardinality({y \in mine : <<y, x>> \in R}) = k - 1
        PROVE  o[k] \in mine /\ Cardinality({y \in mine : <<y, o[k]>> \in R}) = k - 1
    <3> DEFINE Earlier(z) == {y \in mine : Ahead(y, z)}
    <3>1. o[k] = CHOOSE z \in mine : Cardinality(Earlier(z)) = k - 1
      OBVIOUS
    <3>2. \A z \in mine : Earlier(z) = {y \in mine : <<y, z>> \in R}
      BY <1>6
    <3> HIDE DEF Earlier, o, R, mine
    <3>3. Cardinality(Earlier(x)) = k - 1
      BY <2>1, <3>2
    <3>4. o[k] \in mine /\ Cardinality(Earlier(o[k])) = k - 1
      BY <3>1, <3>3
    <3> QED
      BY <3>2, <3>4
  <2>2. o = [k \in 1..m |-> o[k]]
    <3> HIDE DEF AtPlace
    <3> QED
      OBVIOUS
  <2> HIDE DEF o, R
  <2> QED
    BY <2>1, <2>2 DEF RanksBy
<1>9. DOMAIN o = 1..m
  OBVIOUS
<1> HIDE DEF o, R, mine
<1>10. /\ m \in Nat /\ o \in [1..m -> mine]
       /\ \A x \in mine : \E k \in 1..m : o[k] = x
  BY <1>3, <1>7, <1>8, RankedEnumerates
<1>11. m # 0
  BY <1>4, <1>10
<1>12. {o[k] : k \in 1..m} = mine
  BY <1>10
<1>13. o \in [1..m -> DOMAIN bundle]
  BY <1>1, <1>10
<1>14. SessionEvents(bundle, sid) = [k \in 1..m |-> bundle[o[k]]]
  BY <1>2, <1>9
<1> HIDE DEF m
<1>15. m \in Nat \ {0}
  BY <1>10, <1>11
<1> QED
  BY <1>12, <1>13, <1>14, <1>15 DEF mine

\* A session that is whole, and valid under the signing key, is numbered from 1 and
\* linked by the very signatures: the structural tier passes it too.
LEMMA WholeSession ==
  ASSUME SignaturesIdeal, mode \in Modes({DeviceKey}), mode.keyed,
         NEW events \in Seq(Event), events # <<>>, VerifyAuditChain(events, mode).valid,
         events[1].seq_no = 1, \A i \in 1..Len(events) : events[i].chain_format # 1
  PROVE  VerifySessionStructure(events)
<1> DEFINE n == Len(events)
           format == DeclaredFormat(events[1])
<1>1. n \in Nat /\ n > 0 /\ DOMAIN events = 1..n
  BY EmptySeq
<1>2. Supported(events[1])
  BY ValidIsSupported
<1>3. PICK f : Scans(f, events) /\ Misfits(f, events, n) = {}
  BY <1>2, Verified
<1>4. \A i \in 1..n : Fits(f[i - 1], i, events[i], events[1])
  BY <1>3 DEF Misfits
<1>5. ASSUME NEW i \in 1..n
      PROVE  /\ events[i].seq_no \in Nat \ {0} /\ events[i].sdk_sig \in Nat \ {0}
             /\ events[i].timestamp_sdk \in Nat \ {0}
             /\ events[i].sdk_session_id = events[1].sdk_session_id
             /\ DeclaredFormat(events[i]) = format
             /\ Continues(f[i - 1], i, events[i])
  <2>1. /\ Checks(format, events[i]) /\ Continues(f[i - 1], i, events[i])
        /\ events[i].sdk_session_id = events[1].sdk_session_id
    BY <1>4 DEF Fits
  <2>2. format \in CHAIN_FORMATS_SUPPORTED /\ events[i] \in Event
    BY <1>2 DEF Supported
  <2>3. DeclaredFormat(events[i]) = format
    BY <2>1 DEF Checks
  <2> HIDE DEF format
  <2>4. PICK g \in SignedEvents : /\ events[i].seq_no = g.seq_no
                                  /\ events[i].timestamp_sdk = g.timestamp_sdk
                                  /\ events[i].sdk_sig = g.sdk_sig
    BY <2>1, <2>2, Vouched
  <2>5. g.seq_no \in Nat \ {0} /\ g.timestamp_sdk \in Nat \ {0} /\ g.sdk_sig \in Nat \ {0}
    BY SignedIs, SignedAt
  <2> QED
    BY <2>1, <2>3, <2>4, <2>5
<1>6. ASSUME NEW i \in 1..n PROVE events[i].sdk_sig # NoSig
  BY <1>5 DEF NoSig
<1>7. ASSUME NEW i \in 2..n
      PROVE  /\ SeqKey(events[i]) = SeqKey(events[i - 1]) + 1
             /\ events[i].prev_sig # NoPrev
             /\ events[i].prev_sig = events[i - 1].sdk_sig
             /\ TimeKey(events[i]) >= TimeKey(events[i - 1])
             /\ events[i].chain_format = events[i - 1].chain_format
  <2>1. i \in 1..n /\ i - 1 \in 1..n /\ i - 1 \in 0..n /\ i # 1 /\ i > 1
    BY <1>1
  <2>2. i - 1 \in Mine(events, i - 1) /\ \A j \in Mine(events, i - 1) : j <= i - 1
    BY <1>5, <2>1 DEF Mine
  <2>3. /\ events[i - 1].seq_no \in Nat \ {0} /\ events[i - 1].sdk_sig \in Nat \ {0}
        /\ events[i - 1].timestamp_sdk \in Nat \ {0}
        /\ events[i].seq_no \in Nat \ {0} /\ events[i].timestamp_sdk \in Nat \ {0}
        /\ DeclaredFormat(events[i]) = DeclaredFormat(events[i - 1])
        /\ Continues(f[i - 1], i, events[i])
    BY <1>5, <2>1
  <2>4. /\ f[i - 1].lastSeq = events[i - 1].seq_no /\ f[i - 1].lastSig = events[i - 1].sdk_sig
        /\ f[i - 1].lastTimestamp = events[i - 1].timestamp_sdk
    BY <1>3, <2>1, <2>2, <2>3, Anchored DEF NoTime
  <2>5. /\ events[i].seq_no = events[i - 1].seq_no + 1
        /\ events[i].timestamp_sdk >= events[i - 1].timestamp_sdk
        /\ events[i].prev_sig = events[i - 1].sdk_sig
    BY <2>1, <2>3, <2>4 DEF Continues, NoSeq, NoTime
  <2>6. /\ SeqKey(events[i]) = events[i].seq_no /\ SeqKey(events[i - 1]) = events[i - 1].seq_no
        /\ TimeKey(events[i]) = events[i].timestamp_sdk
        /\ TimeKey(events[i - 1]) = events[i - 1].timestamp_sdk
    BY <2>3 DEF SeqKey, TimeKey, NoSeq, NoTime
  <2>7. events[i].chain_format = events[i - 1].chain_format
    BY <2>1, <2>3 DEF DeclaredFormat, NoFormat
  <2> QED
    BY <2>3, <2>5, <2>6, <2>7 DEF NoPrev
<1>8. ASSUME NEW i \in DOMAIN events
      PROVE  /\ events[i].sdk_sig # NoSig
             /\ IF i = 1 THEN events[1].seq_no = 1
                ELSE /\ SeqKey(events[i]) = SeqKey(events[i - 1]) + 1
                     /\ events[i].prev_sig # NoPrev
                     /\ events[i].prev_sig = events[i - 1].sdk_sig
                     /\ TimeKey(events[i]) >= TimeKey(events[i - 1])
                     /\ events[i].chain_format = events[i - 1].chain_format
  <2>1. i \in 1..n /\ (i # 1 => i \in 2..n)
    BY <1>1
  <2> QED
    BY <1>6, <1>7, <2>1
<1> QED
  BY <1>8 DEF VerifySessionStructure

\* The tally of a valid session is 0 just when it holds no marker.
LEMMA ValidTally ==
  ASSUME mode \in Modes({DeviceKey}),
         NEW events \in Seq(Event), events # <<>>, VerifyAuditChain(events, mode).valid
  PROVE  /\ VerifyAuditChain(events, mode).gapMarkers \in Nat
         /\ VerifyAuditChain(events, mode).gapMarkers = 0
              <=> \A i \in 1..Len(events) : ~IsAuditGap(events[i])
<1> DEFINE n == Len(events)
           r == VerifyAuditChain(events, mode)
           counted == {j \in 1..r.eventsVerified : IsAuditGap(events[j])}
<1>1. Supported(events[1])
  BY ValidIsSupported
<1>2. PICK f : /\ Scans(f, events)
               /\ r.gapMarkers = Cardinality(Counted(f, events, n))
               /\ Counted(f, events, n) = counted
               /\ r.valid => r.eventsVerified = n
  BY <1>1, Verified
<1>3. n \in Nat /\ n \in 0..n
  OBVIOUS
<1>4. IsFiniteSet(counted)
  <2>1. IsFiniteSet(Counted(f, events, n))
    BY <1>2, <1>3, ScanTallies
  <2> QED
    BY <1>2, <2>1
<1>5. r.eventsVerified = n
  BY <1>2
<1>6. counted = {j \in 1..n : IsAuditGap(events[j])}
  BY <1>5
<1> HIDE DEF counted, r
<1>7. r.gapMarkers = Cardinality(counted)
  BY <1>2
<1>8. r.gapMarkers \in Nat /\ (r.gapMarkers = 0 <=> counted = {})
  BY <1>4, <1>7, FS_CardinalityType, FS_EmptySet
<1> QED
  BY <1>6, <1>8 DEF r

\* A sum of numbers is 0 just when every one of them is.
LEMMA ZeroSum ==
  ASSUME NEW S, IsFiniteSet(S), NEW t, \A x \in S : t[x] \in Nat
  PROVE  Total(t, S) = 0 <=> \A x \in S : t[x] = 0
<1>1. ASSUME NEW x \in S, Total(t, S) = 0 PROVE t[x] = 0
  <2>1. IsFiniteSet(S \ {x})
    BY FS_Subset
  <2>2. Total(t, S \ {x}) \in Nat
    BY <2>1, TotalRemoves
  <2>3. Total(t, S) = t[x] + Total(t, S \ {x})
    BY TotalRemoves
  <2> QED
    BY <1>1, <2>2, <2>3
<1> QED
  BY <1>1, TotalZero

\* The tallies of the sessions, summed as the command does.
LEMMA MarkersSummed ==
  ASSUME NEW D, IsFiniteSet(D), NEW res
  PROVE  MapThenSumSet(LAMBDA sid : res[sid].gapMarkers, D)
           = Total([sid \in D |-> res[sid].gapMarkers], D)
<1> DEFINE t == [sid \in D |-> res[sid].gapMarkers]
           step(g) == [s \in SUBSET D |-> IF s = {} THEN 0
                         ELSE LET x == CHOOSE y \in s : TRUE IN res[x].gapMarkers + g[s \ {x}]]
           iter == CHOOSE g : g = step(g)
<1>1. MapThenSumSet(LAMBDA sid : res[sid].gapMarkers, D) = iter[D]
  BY DEF MapThenSumSet, MapThenFoldSet
<1>2. ASSUME NEW g PROVE step(g) = SumStep(t, D, g)
  <2>1. ASSUME NEW s \in SUBSET D, s # {}
        PROVE  t[CHOOSE y \in s : TRUE] = res[CHOOSE y \in s : TRUE].gapMarkers
    <3>1. (CHOOSE y \in s : TRUE) \in D
      BY <2>1
    <3> QED
      BY <3>1
  <2> HIDE DEF t
  <2> QED
    BY <2>1 DEF SumStep
<1>3. PICK g : Sums(t, D, g)
  BY SumExists
<1> HIDE DEF t
<1>4. g = step(g)
  BY <1>2, <1>3 DEF Sums
<1>5. iter = step(iter)
  BY <1>4
<1> HIDE DEF iter, step
<1>6. Sums(t, D, iter)
  BY <1>2, <1>5 DEF Sums
<1>7. iter[D] = Total(t, D)
  BY <1>6, TotalIs
<1> QED
  BY <1>1, <1>7, Zenon DEF t

\* The exit codes agree.
LEMMA SameExit ==
  ASSUME SignaturesIdeal, ExportInv
  PROVE  TiersAgree
<1> DEFINE D == SessionsOf(bundle)
           E(sid) == SessionEvents(bundle, sid)
           res == [sid \in D |-> VerifyAuditChain(E(sid), mode)]
           sum == MapThenSumSet(LAMBDA sid : res[sid].gapMarkers, DOMAIN res)
           passed == \A sid \in DOMAIN res : res[sid].valid
           sound == \A sid \in D : VerifySessionStructure(E(sid))
           marked == IF sound THEN {i \in DOMAIN bundle : IsAuditGap(bundle[i])} ELSE {}
<1>1. /\ KeyedReport(bundle, mode).valid = passed
      /\ KeyedReport(bundle, mode).exitCode = ExitCode(passed, sum)
  BY DEF KeyedReport
<1>2. StructuralReport(bundle).exitCode = ExitCode(sound, Cardinality(marked))
  BY DEF StructuralReport
<1>3. SUFFICES ASSUME mode.keyed, passed, \A sid \in D : E(sid)[1].seq_no = 1,
                      \A i \in DOMAIN bundle : bundle[i].chain_format # 1
               PROVE  ExitCode(sound, Cardinality(marked)) = ExitCode(passed, sum)
  <2> HIDE DEF D, E, res, sum, passed, sound, marked
  <2> QED
    BY <1>1, <1>2 DEF TiersAgree, D, E
<1>4. bundle \in Seq(Event) /\ mode \in Modes({DeviceKey}) /\ Len(bundle) \in Nat
      /\ DOMAIN bundle = 1..Len(bundle)
  BY DEF ExportInv
<1>5. DOMAIN res = D /\ \A sid \in D : res[sid] = VerifyAuditChain(E(sid), mode)
  OBVIOUS
<1>6. \A sid \in D : VerifyAuditChain(E(sid), mode).valid
  BY <1>3, <1>5
<1> HIDE DEF res
<1>7. ASSUME NEW sid \in D
      PROVE  /\ VerifySessionStructure(E(sid))
             /\ res[sid].gapMarkers \in Nat
             /\ res[sid].gapMarkers = 0
                  <=> \A i \in DOMAIN bundle : bundle[i].sdk_session_id = sid => ~IsAuditGap(bundle[i])
  <2>1. PICK m \in Nat \ {0} : \E o \in [1..m -> DOMAIN bundle] :
           /\ {o[k] : k \in 1..m} = {i \in DOMAIN bundle : bundle[i].sdk_session_id = sid}
           /\ E(sid) = [k \in 1..m |-> bundle[o[k]]]
    BY <1>4, SessionIs
  <2>2. PICK o \in [1..m -> DOMAIN bundle] :
           /\ {o[k] : k \in 1..m} = {i \in DOMAIN bundle : bundle[i].sdk_session_id = sid}
           /\ E(sid) = [k \in 1..m |-> bundle[o[k]]]
    BY <2>1
  <2> DEFINE events == E(sid)
  <2>3. \A k \in 1..m : o[k] \in DOMAIN bundle /\ bundle[o[k]] \in Event
    BY <1>4
  <2>4. events \in Seq(Event) /\ Len(events) = m /\ \A k \in 1..m : events[k] = bundle[o[k]]
    <3>1. events \in [1..m -> Event]
      BY <2>2, <2>3
    <3>2. \A k \in 1..m : events[k] = bundle[o[k]]
      BY <2>2
    <3>3. events \in Seq(Event)
      BY <3>1, SeqDef
    <3>4. Len(events) = m
      BY <3>1, <3>3
    <3> QED
      BY <3>2, <3>3, <3>4
  <2>5. events # <<>>
    BY <2>4, EmptySeq
  <2>6. VerifyAuditChain(events, mode).valid /\ events[1].seq_no = 1
    BY <1>3, <1>6
  <2>7. \A k \in 1..Len(events) : events[k].chain_format # 1
    BY <1>3, <2>3, <2>4
  <2>8. res[sid] = VerifyAuditChain(events, mode)
    BY <1>5
  <2> HIDE DEF events, E, D
  <2>9. VerifySessionStructure(events)
    BY <1>3, <1>4, <2>4, <2>5, <2>6, <2>7, WholeSession
  <2>10. /\ res[sid].gapMarkers \in Nat
         /\ res[sid].gapMarkers = 0 <=> \A k \in 1..m : ~IsAuditGap(bundle[o[k]])
    BY <1>4, <2>4, <2>5, <2>6, <2>8, ValidTally
  <2>11. (\A k \in 1..m : ~IsAuditGap(bundle[o[k]]))
           <=> \A i \in {o[k] : k \in 1..m} : ~IsAuditGap(bundle[i])
    OBVIOUS
  <2>12. (\A i \in {o[k] : k \in 1..m} : ~IsAuditGap(bundle[i]))
           <=> \A i \in DOMAIN bundle : bundle[i].sdk_session_id = sid => ~IsAuditGap(bundle[i])
    BY <2>2
  <2> QED
    BY <2>9, <2>10, <2>11, <2>12 DEF events
<1>8. sound
  BY <1>7
<1>9. IsFiniteSet(D)
  <2>1. [i \in DOMAIN bundle |-> bundle[i].sdk_session_id] \in Surjection(DOMAIN bundle, D)
    BY DEF Surjection, SessionsOf
  <2>2. IsFiniteSet(DOMAIN bundle)
    BY <1>4, FS_Interval
  <2> HIDE DEF D
  <2> QED
    BY <2>1, <2>2, FS_Surjection
<1> DEFINE t == [sid \in D |-> res[sid].gapMarkers]
<1>10. sum = Total(t, D)
  <2> HIDE DEF D
  <2> QED
    BY <1>5, <1>9, MarkersSummed
<1>11. \A sid \in D : t[sid] \in Nat /\ t[sid] = res[sid].gapMarkers
  BY <1>7
<1>12. Total(t, D) = 0 <=> \A sid \in D : t[sid] = 0
  <2> HIDE DEF D, t
  <2> QED
    BY <1>9, <1>11, ZeroSum
<1>13. (\A sid \in D : t[sid] = 0) <=> \A i \in DOMAIN bundle : ~IsAuditGap(bundle[i])
  <2>1. \A i \in DOMAIN bundle : bundle[i].sdk_session_id \in D
    BY DEF SessionsOf
  <2> HIDE DEF D, t, E
  <2> QED
    BY <1>7, <1>11, <2>1
<1>14. Cardinality(marked) = 0 <=> \A i \in DOMAIN bundle : ~IsAuditGap(bundle[i])
  <2>1. marked = {i \in DOMAIN bundle : IsAuditGap(bundle[i])}
    BY <1>8
  <2>2. IsFiniteSet(marked)
    <3>1. IsFiniteSet(DOMAIN bundle) /\ marked \subseteq DOMAIN bundle
      BY <1>4, <2>1, FS_Interval
    <3> HIDE DEF marked
    <3> QED
      BY <3>1, FS_Subset
  <2> HIDE DEF marked
  <2>3. Cardinality(marked) = 0 <=> marked = {}
    BY <2>2, FS_EmptySet
  <2> QED
    BY <2>1, <2>3
<1> HIDE DEF marked, sum, passed, sound, t, D, E
<1>15. sum = 0 <=> Cardinality(marked) = 0
  BY <1>10, <1>12, <1>13, <1>14
<1> QED
  BY <1>3, <1>8, <1>15 DEF ExitCode

----------------------------------------------------------------------------
(* The edits, and the theorems.                                            *)

\* Taking an event out leaves a sequence of events.
LEMMA RemoveKeepsType ==
  ASSUME NEW s \in Seq(Event), NEW i \in 1..Len(s)
  PROVE  RemoveAt(s, i) \in Seq(Event) /\ Len(RemoveAt(s, i)) = Len(s) - 1
<1>1. Len(s) \in Nat /\ \A k \in 1..Len(s) : s[k] \in Event
  OBVIOUS
<1> DEFINE front == SubSeq(s, 1, i - 1)
           after == SubSeq(s, i + 1, Len(s))
<1>2. front \in Seq(Event) /\ Len(front) = i - 1
  BY <1>1, SubSeqProperties
<1>3. after \in Seq(Event) /\ Len(after) = Len(s) - i
  BY <1>1, SubSeqProperties
<1>4. RemoveAt(s, i) = front \o after
  BY DEF RemoveAt
<1> HIDE DEF front, after
<1>5. front \o after \in Seq(Event) /\ Len(front \o after) = Len(front) + Len(after)
  BY <1>2, <1>3, ConcatProperties
<1>6. (i - 1) + (Len(s) - i) = Len(s) - 1
  BY <1>1
<1> QED
  BY <1>2, <1>3, <1>4, <1>5, <1>6

\* So does putting one in, after the last at most.
LEMMA InsertKeepsType ==
  ASSUME NEW s \in Seq(Event), NEW i \in 1..(Len(s) + 1), NEW e \in Event
  PROVE  InsertAt(s, i, e) \in Seq(Event)
<1>1. Len(s) \in Nat /\ \A k \in 1..Len(s) : s[k] \in Event
  OBVIOUS
<1> DEFINE front == SubSeq(s, 1, i - 1)
           rest == SubSeq(s, i, Len(s))
<1>2. front \in Seq(Event)
  BY <1>1, SubSeqProperties
<1>3. rest \in Seq(Event)
  BY <1>1, SubSeqProperties
<1>4. InsertAt(s, i, e) = (front \o <<e>>) \o rest
  BY DEF InsertAt
<1>5. <<e>> \in Seq(Event)
  OBVIOUS
<1> HIDE DEF front, rest
<1>6. front \o <<e>> \in Seq(Event)
  BY <1>2, <1>5, ConcatProperties
<1> QED
  BY <1>3, <1>4, <1>6, ConcatProperties

\* So does replacing one.
LEMMA ReplaceKeepsType ==
  ASSUME NEW s \in Seq(Event), NEW i \in 1..Len(s), NEW e \in Event
  PROVE  ReplaceAt(s, i, e) \in Seq(Event)
<1>1. ReplaceAt(s, i, e) = [s EXCEPT ![i] = e]
  BY DEF ReplaceAt
<1> QED
  BY <1>1

\* The invariant holds of an export as it is made.
LEMMA InitHolds ==
  ASSUME ExportInit
  PROVE  ExportInv
<1>1. ASSUME NEW s \in DOMAIN Log
      PROVE  Log[s] \in Seq(Event) /\ \A k \in DOMAIN Log[s] : Log[s][k] \in SignedEvents
  BY SignedAt, TamperedExportAssumption DEF SignedEvents
<1>2. bundle \in Seq(Event) /\ \A i \in DOMAIN bundle : bundle[i] \in SignedEvents
  <2>1. CASE bundle \in {Log[s] : s \in DOMAIN Log}
    BY <1>1, <2>1
  <2>2. ASSUME NEW p \in (DOMAIN Log) \X (DOMAIN Log), bundle = Log[p[1]] \o Log[p[2]]
        PROVE  bundle \in Seq(Event) /\ \A i \in DOMAIN bundle : bundle[i] \in SignedEvents
    <3> DEFINE a == Log[p[1]]
               b == Log[p[2]]
    <3>1. /\ a \in Seq(Event) /\ b \in Seq(Event)
          /\ \A k \in DOMAIN a : a[k] \in SignedEvents
          /\ \A k \in DOMAIN b : b[k] \in SignedEvents
      BY <1>1
    <3> HIDE DEF a, b
    <3>2. /\ a \o b \in Seq(Event) /\ Len(a \o b) = Len(a) + Len(b)
          /\ \A i \in 1..(Len(a) + Len(b)) :
               (a \o b)[i] = IF i <= Len(a) THEN a[i] ELSE b[i - Len(a)]
      BY <3>1, ConcatProperties
    <3>3. ASSUME NEW i \in DOMAIN (a \o b) PROVE (a \o b)[i] \in SignedEvents
      <4>1. Len(a) \in Nat /\ Len(b) \in Nat /\ i \in 1..(Len(a) + Len(b))
            /\ DOMAIN a = 1..Len(a) /\ DOMAIN b = 1..Len(b)
        BY <3>1, <3>2
      <4>2. CASE i <= Len(a)
        BY <3>1, <3>2, <4>1, <4>2
      <4>3. CASE ~(i <= Len(a))
        <5>1. i - Len(a) \in 1..Len(b)
          BY <4>1, <4>3
        <5> QED
          BY <3>1, <3>2, <4>1, <4>3, <5>1
      <4> QED
        BY <4>2, <4>3
    <3> QED
      BY <2>2, <3>2, <3>3 DEF a, b
  <2>3. \/ bundle \in {Log[s] : s \in DOMAIN Log}
        \/ \E p \in (DOMAIN Log) \X (DOMAIN Log) : bundle = Log[p[1]] \o Log[p[2]]
    BY DEF ExportInit, Exports
  <2> QED
    BY <2>1, <2>2, <2>3
<1>3. edits = 0 /\ mode \in Modes({DeviceKey})
  BY DEF ExportInit
<1> QED
  BY <1>2, <1>3 DEF ExportInv

\* Every edit keeps it.
LEMMA StepKeeps ==
  ASSUME ExportInv, [ExportNext]_exportVars
  PROVE  ExportInv'
<1>1. bundle \in Seq(Event) /\ edits \in Nat /\ mode \in Modes({DeviceKey})
  BY DEF ExportInv
<1>2. DOMAIN bundle = 1..Len(bundle) /\ \A i \in DOMAIN bundle : bundle[i] \in Event
  BY <1>1
<1>3. ASSUME NEW damaged \in Seq(Event), Edit(damaged)
      PROVE  ExportInv'
  <2>1. bundle' = damaged /\ edits' = edits + 1 /\ mode' = mode
    BY <1>3 DEF Edit
  <2>2. edits' \in Nat /\ edits' # 0
    BY <1>1, <2>1
  <2> QED
    BY <1>1, <2>1, <2>2 DEF ExportInv
<1>4. CASE Drop
  <2>1. PICK i \in DOMAIN bundle : Edit(RemoveAt(bundle, i))
    BY <1>4 DEF Drop
  <2>2. RemoveAt(bundle, i) \in Seq(Event)
    BY <1>1, <1>2, RemoveKeepsType
  <2> QED
    BY <1>3, <2>1, <2>2
<1>5. CASE Duplicate
  <2>1. PICK i \in DOMAIN bundle : Edit(InsertAt(bundle, i, bundle[i]))
    BY <1>5 DEF Duplicate
  <2>2. InsertAt(bundle, i, bundle[i]) \in Seq(Event)
    <3>1. i \in 1..(Len(bundle) + 1)
      BY <1>1, <1>2
    <3> QED
      BY <1>1, <1>2, <3>1, InsertKeepsType
  <2> QED
    BY <1>3, <2>1, <2>2
<1>6. CASE Move
  <2>1. PICK i \in DOMAIN bundle, j \in DOMAIN bundle :
          i # j /\ Edit(InsertAt(RemoveAt(bundle, i), j, bundle[i]))
    BY <1>6 DEF Move
  <2> DEFINE fewer == RemoveAt(bundle, i)
  <2>2. fewer \in Seq(Event) /\ Len(fewer) = Len(bundle) - 1
    BY <1>1, <1>2, RemoveKeepsType
  <2>3. j \in 1..(Len(fewer) + 1) /\ bundle[i] \in Event
    BY <1>1, <1>2, <2>2
  <2> HIDE DEF fewer
  <2>4. InsertAt(fewer, j, bundle[i]) \in Seq(Event)
    BY <2>2, <2>3, InsertKeepsType
  <2> QED
    BY <1>3, <2>1, <2>4 DEF fewer
<1>7. CASE Alter
  <2>1. PICK i \in DOMAIN bundle : \E e \in Event : Edit(ReplaceAt(bundle, i, e))
    BY <1>7 DEF Alter
  <2>2. PICK e \in Event : Edit(ReplaceAt(bundle, i, e))
    BY <2>1
  <2>3. ReplaceAt(bundle, i, e) \in Seq(Event)
    BY <1>1, <1>2, ReplaceKeepsType
  <2> QED
    BY <1>3, <2>2, <2>3
<1>8. CASE UNCHANGED exportVars
  <2>1. bundle' = bundle /\ edits' = edits /\ mode' = mode
    BY <1>8 DEF exportVars
  <2> QED
    BY <2>1 DEF ExportInv
<1> QED
  BY <1>4, <1>5, <1>6, <1>7, <1>8 DEF ExportNext, Examined

\* The invariant, of every export and everything that is done to it.
THEOREM ExportInvariant == ExportSpec => []ExportInv
<1>1. ExportInit => ExportInv
  BY InitHolds
<1>2. ExportInv /\ [ExportNext]_exportVars => ExportInv'
  BY StepKeeps
<1> QED
  BY <1>1, <1>2, PTL DEF ExportSpec

\* Of every log, under every edit and however many, and whatever separators its
\* texts hold, a chain obsvr-verify calls valid is an unbroken run of what was
\* signed, up to what its format signs; unless it is read in format 1, which signs
\* no tag, under a session id that holds a separator.
THEOREM ValidMeansGenuine ==
  ASSUME SignaturesIdeal
  PROVE  ExportSpec => []ValidIsGenuine
<1>1. ASSUME ExportInv PROVE ValidIsGenuine
  <2>1. SUFFICES ASSUME VerifyAuditChain(bundle, mode).valid, bundle # <<>>, ~Respelled(bundle)
        PROVE  \E s \in DOMAIN Log : \E from \in 0..(Len(Log[s]) - Len(bundle)) :
                 \A i \in DOMAIN bundle : SameEvidence(bundle[i], Log[s][from + i])
    BY DEF ValidIsGenuine, IsSegment
  <2>2. bundle \in Seq(Event) /\ mode \in Modes({DeviceKey})
    BY <1>1 DEF ExportInv
  <2>3. PICK s \in DOMAIN Log : \E from \in 0..(Len(Log[s]) - Len(bundle)) :
          Reads(bundle, s, from)
    BY <2>1, <2>2, ValidChain
  <2>4. PICK from \in 0..(Len(Log[s]) - Len(bundle)) : Reads(bundle, s, from)
    BY <2>3
  <2>5. \A i \in DOMAIN bundle : SameEvidence(bundle[i], Log[s][from + i])
    BY <2>2, <2>4 DEF Reads
  <2> QED
    BY <2>5
<1> QED
  BY <1>1, ExportInvariant, PTL

\* A run of consecutive events of a session is never refused, unless the clock
\* moved back while the session was signed.
THEOREM GenuineMeansValid ==
  ASSUME SignaturesIdeal
  PROVE  ExportSpec => []GenuineIsValid
<1>1. ASSUME ExportInv PROVE GenuineIsValid
  BY <1>1, SegmentIsValid DEF ExportInv, GenuineIsValid
<1> QED
  BY <1>1, ExportInvariant, PTL

\* An event of the session that was signed and follows the one before it is no
\* break, whatever was done to the rest of the export.
THEOREM DamageStaysLocal ==
  ASSUME SignaturesIdeal
  PROVE  ExportSpec => []DamageIsLocal
<1>1. ASSUME ExportInv PROVE DamageIsLocal
  BY <1>1, LocalDamage DEF ExportInv
<1> QED
  BY <1>1, ExportInvariant, PTL

\* The loss the verifier reports is what the signed markers of the verified
\* prefix declare, and nothing an edit wrote.
THEOREM OnlySignedCounts ==
  ASSUME SignaturesIdeal
  PROVE  ExportSpec => []TallyIsSigned
<1>1. ASSUME ExportInv PROVE TallyIsSigned
  BY <1>1, SignedTally
<1> QED
  BY <1>1, ExportInvariant, PTL

\* An export the keyed tier passes, of sessions from their first event on, gets
\* the same exit code from the structural tier, unless an event spells format 1.
THEOREM TwoTiersAgree ==
  ASSUME SignaturesIdeal
  PROVE  ExportSpec => []TiersAgree
<1>1. ASSUME ExportInv PROVE TiersAgree
  BY <1>1, SameExit
<1> QED
  BY <1>1, ExportInvariant, PTL
=============================================================================
