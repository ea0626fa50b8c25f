-------------------------- MODULE RequestAdapters --------------------------
(***************************************************************************)
(* What a request carries past governance on each adapter: which parts of  *)
(* it the scan reads, which the redaction rewrites, what is checked before *)
(* the provider gets it, and what of the answer reaches the record         *)
(* (integrations/*.ts, proxy/wrapper.ts and proxy/extractors/*.ts).  How   *)
(* the verdict comes about is in WrapperCall and IntegrationCall.          *)
(***************************************************************************)
EXTENDS Naturals, FiniteSets

CONSTANT Requests    \* the requests considered

\* A wrapped client speaks the format of one of four providers.
Formats == {"openai", "responses", "anthropic", "gemini"}
Adapters == Formats \cup {"vertex", "workers", "vercel", "llamaindex", "converse", "invoke"}

\* The parts of a request.  "held" is what the provider's object keeps from turn to
\* turn and sends along, "fixed" what it keeps from its construction, "odd" a shape
\* that reader and rewriter may not both know.
Slots == {"text", "tool", "held", "fixed", "odd"}

\* Only Google's chats and models keep anything.
Keepers == {"gemini", "vertex"}

\* What a part may hold.  A span is PII the built-in redactor locates, an entity PII that
\* only Presidio recognises; opaque content cannot be read at all.
Secrets == {"span", "entity"}
Kinds == Secrets \cup {"plain", "opaque"}

ASSUME RequestAssumption ==
  \A r \in Requests :
    /\ r.adapter \in Adapters
    /\ r.content \in [Slots -> SUBSET Kinds]
    /\ r.adapter \notin Keepers => r.content["held"] = {} /\ r.content["fixed"] = {}
    /\ r.streams \in BOOLEAN /\ r.monitor \in BOOLEAN /\ r.skip \in BOOLEAN
    /\ r.presidio \in {"none", "analyzer", "both"}

VARIABLE req

NewRequest(r) ==
  [about |-> r, at |-> "given", own |-> r.content, out |-> r.content,
   saw |-> {}, named |-> {}, by |-> "none", audited |-> FALSE, events |-> 0, told |-> "none",
   answer |-> {}, heard |-> {}, marks |-> {}]

RequestInit == req \in {NewRequest(r) : r \in Requests}

Adapter == req.about.adapter
Wrapped(r) == r.about.adapter \in Formats
Marked(r, mark) == [r EXCEPT !.marks = @ \cup {mark}]
Goes(r, place) == [r EXCEPT !.at = place]
Tells(r, what) == [r EXCEPT !.told = what, !.events = @ + 1]
Holds(content, slots) == UNION {content[s] : s \in slots}
Without(content, slots, kinds) ==
  [s \in Slots |-> IF s \in slots THEN content[s] \ kinds ELSE content[s]]

----------------------------------------------------------------------------
(* What the scans read and what the rewriters rewrite.                     *)

\* The wrapped client: any text of the request, bare strings in a list of parts too;
\* and what a Google chat keeps, a cache only if it can be read.
RequestReads == {"text", "tool", "odd"}
GoogleContextReads == {"held", "fixed"}
RequestRewrites == {"text", "tool"}
GoogleContextRewrites == {"held"}

\* presidioRedactArgs knows the bare strings, but not every shape of a tool's data.
AnonymizerRewrites == {{"text", "odd"}, {"text", "odd", "tool"}}

\* Vertex.
GeminiReads == {"text", "tool", "odd"}
VertexContextReads == {"held", "fixed"}
VertexRewrites == {"text", "tool"}

\* Workers AI: every string leaf is read; those of a class instance are not rewritten.
WorkersReads == {"text", "tool", "odd"}
WorkersRewrites == {"text", "tool"}

VercelReads == {"text", "tool"}
VercelRewrites == {"text", "tool"}

\* LlamaIndex reads the text parts of messages only.
LlamaIndexReads == {"text"}

\* Bedrock; a body that does not decode is neither read nor rewritten.
ConverseReads == {"text", "tool"}
ConverseRewrites == {"text", "tool"}
InvokeReads == {"text", "tool"}
InvokeRewrites == {"text", "tool"}

Reads(adapter) ==
  CASE adapter \in Formats -> RequestReads \cup GoogleContextReads
    [] adapter = "vertex" -> GeminiReads \cup VertexContextReads
    [] adapter = "workers" -> WorkersReads
    [] adapter = "vercel" -> VercelReads
    [] adapter = "llamaindex" -> LlamaIndexReads
    [] adapter = "converse" -> ConverseReads
    [] adapter = "invoke" -> InvokeReads

----------------------------------------------------------------------------
(* The verdict.                                                            *)

\* Opaque context throws before anything is judged; no event tells of it.
ReadRequest ==
  /\ req.at = "given"
  /\ req' = IF "opaque" \in Holds(req.own, Reads(Adapter))
              THEN Goes(Marked(req, "opaque"), "refused")
              ELSE Goes([req EXCEPT !.saw = Holds(req.own, Reads(Adapter)) \cap Secrets], "judging")

\* While a call awaits, the answer to another turn joins the chat's history.
HistoryGrows ==
  /\ req.at \in {"judging", "leaving"}
  /\ Adapter \in Keepers
  /\ "span" \notin req.own.held
  /\ req' = Marked([req EXCEPT !.own.held = @ \cup {"span"}, !.out.held = @ \cup {"span"}], "grew")

Refused(r) == Goes(Tells(r, "blocked"), "refused")

\* Emission of clean calls is sampled; monitor mode and whatever policy did is complete.
AuditsThis(r, sampled) == sampled \/ r.about.monitor \/ r.by # "none"

Forwarded(r) == Goes(r, IF Wrapped(r) THEN "leaving" ELSE "sent")

\* An allowed request goes out as it is when it goes.
Allow ==
  /\ req.at = "judging"
  /\ \E sampled \in BOOLEAN :
       req' = Forwarded([req EXCEPT !.out = req.own, !.audited = AuditsThis(req, sampled)])

RefuseRequest == req.at = "judging" /\ req' = Refused(req)

\* PII policy names the types it found; a rule or a hook asks for a redaction without
\* naming any that a scan could find.
Redactable(r, answered) ==
  r.saw \cap ({"span"} \cup IF r.about.presidio # "none" /\ answered THEN {"entity"} ELSE {})

DecideRedaction ==
  /\ req.at = "judging"
  /\ \/ \E answered \in BOOLEAN :
          /\ Redactable(req, answered) # {}
          /\ req' = Goes([req EXCEPT !.by = "pii", !.named = Redactable(req, answered)], "redacting")
     \/ req' = Goes([req EXCEPT !.by = "policy"], "redacting")

----------------------------------------------------------------------------
(* The redaction carried out: a set of outcomes, each a content that goes  *)
(* out or none.                                                            *)

CarriedOut(own, out) == [own |-> own, out |-> out, applied |-> TRUE]
NotCarriedOut(own) == [own |-> own, out |-> own, applied |-> FALSE]

\* Variant: the rewritten request is not read again.
AssertNothing(r, own, out) == {CarriedOut(own, out)}

\* assertRedactionApplied: what the built-in scan still finds of the named types.
AssertApplied(r, own, out) ==
  IF "span" \in r.named /\ "span" \in Holds(out, Reads(r.about.adapter))
    THEN {NotCarriedOut(own)} ELSE {CarriedOut(own, out)}

\* A wrapped client asserts a redaction that PII policy asked for, and has Presidio look
\* for the entities again; a sidecar that does not answer refuses the call.
WrapVerified(r, own, out) ==
  IF "entity" \notin r.named THEN AssertApplied(r, own, out)
  ELSE {NotCarriedOut(own)} \cup
       IF "entity" \in Holds(out, Reads(r.about.adapter)) THEN {} ELSE AssertApplied(r, own, out)

WrapPiiRedactions(r) ==
  LET builtin == Without(r.own, RequestRewrites, {"span"})
      requests == IF r.about.presidio # "both" THEN {builtin}
                  ELSE {Without(r.own, slots, Secrets) : slots \in AnonymizerRewrites}
                       \cup IF "entity" \in r.named THEN {} ELSE {builtin}
      own == Without(r.own, GoogleContextRewrites, {"span"})
  IN IF r.own.fixed # {} THEN {NotCarriedOut(r.own)}
     ELSE UNION {WrapVerified(r, own, Without(out, GoogleContextRewrites, {"span"})) : out \in requests}

\* Policy's own redaction rewrites the arguments only, and nothing is asserted.
WrapRedactions(r) ==
  IF r.by = "pii" THEN WrapPiiRedactions(r)
  ELSE {CarriedOut(r.own, Without(r.own, RequestRewrites, {"span"}))}

\* Vertex rewrites the retained history in place; a cache refuses before that, model
\* context after.
VertexRedactions(r) ==
  LET own == Without(r.own, {"held"}, {"span"}) IN
  IF r.own.fixed # {} THEN {NotCarriedOut(r.own), NotCarriedOut(own)}
  ELSE AssertApplied(r, own, Without(own, VertexRewrites, {"span"}))

WorkersRedactions(r) == AssertApplied(r, r.own, Without(r.own, WorkersRewrites, {"span"}))

\* redactedPrompt: the anonymizer's text, which keeps what only the built-in scan knows, or
\* the built-in one's.
RedactedPrompts(r) ==
  {r.saw \ {"span"}} \cup
  IF r.about.presidio = "both" THEN {r.saw \ {"entity"}, r.saw \ Secrets} ELSE {}

\* The text that takes the place of a whole prompt: a text that no redactor changed
\* becomes a placeholder.
Collapsed(r, left) ==
  [r.own EXCEPT !.text = IF left # r.saw THEN left ELSE {}, !.tool = {}]

\* A redaction that the built-in redactor did not make is not one it can repeat part by part.
RequiresWholePrompt(r, left) == r.named = {} \/ left \notin {r.saw, r.saw \ {"span"}}

VercelRedactions(r) ==
  UNION {AssertApplied(r, r.own,
           IF RequiresWholePrompt(r, left) THEN Collapsed(r, left)
           ELSE Without(r.own, VercelRewrites, {"span"})) : left \in RedactedPrompts(r)}

LlamaIndexRedactions(r) == {CarriedOut(r.own, Collapsed(r, left)) : left \in RedactedPrompts(r)}

\* Bedrock rewrites the command it was given; input that refuses a write stops it half way.
BedrockRedactions(r, rewrites) ==
  LET whole == Without(r.own, rewrites, {"span"}) IN
  {CarriedOut(whole, whole)} \cup
  {NotCarriedOut(Without(r.own, slots, {"span"})) : slots \in SUBSET rewrites}

Redactions(r) ==
  CASE Wrapped(r) -> WrapRedactions(r)
    [] r.about.adapter = "vertex" -> VertexRedactions(r)
    [] r.about.adapter = "workers" -> WorkersRedactions(r)
    [] r.about.adapter = "vercel" -> VercelRedactions(r)
    [] r.about.adapter = "llamaindex" -> LlamaIndexRedactions(r)
    [] r.about.adapter = "converse" -> BedrockRedactions(r, ConverseRewrites)
    [] r.about.adapter = "invoke" -> BedrockRedactions(r, InvokeRewrites)

\* applyOutboundRedaction: a redaction that was not applied refuses the call.
Redact ==
  /\ req.at = "redacting"
  /\ \E o \in Redactions(req) :
       LET r == [req EXCEPT !.own = o.own, !.out = o.out, !.audited = TRUE] IN
       req' = IF o.applied THEN Forwarded(r) ELSE Refused(r)

\* A wrapped client consumes its plan after further awaits.
Leave == req.at = "leaving" /\ req' = Goes(req, "sent")

----------------------------------------------------------------------------
(* The answer, and what the event holds of it.  An answer says something,  *)
(* or asks for a tool.                                                     *)

Answers == {{"text"}, {"tool"}, {"text", "tool"}}
Text(answer) == answer \cap {"text"}

\* What the extractors of the formats find: in a value,
OpenAIResponse(answer) == {answer}
AnthropicResponse(answer) == {answer}
ConverseResponse(answer) == {answer}
\* where the text of the whole answer, if there, stands for all of it,
ResponsesResponse(answer) == {answer, IF "text" \in answer THEN Text(answer) ELSE answer}
InvokeResponse(answer) == {answer, Text(answer)}
\* or the text alone;
GeminiResponse(answer) == {Text(answer)}
WorkersResponse(answer) == {Text(answer)}
VercelText(answer) == {Text(answer)}
LlamaIndexText(answer) == {Text(answer)}
\* and in the chunks of a stream, the increments of text; for Gemini those of first parts;
\* the Responses API repeats the whole answer at the end.
OpenAIStream(answer) == {Text(answer)}
AnthropicStream(answer) == {Text(answer)}
BedrockStream(answer) == {Text(answer)}
GeminiStream(answer) == {Text(answer), {}}
ResponsesStream(answer) == {IF "text" \in answer THEN Text(answer) ELSE answer}

ExtractedFromValue(adapter, answer) ==
  CASE adapter = "openai" -> OpenAIResponse(answer)
    [] adapter = "anthropic" -> AnthropicResponse(answer)
    [] adapter = "converse" -> ConverseResponse(answer)
    [] adapter = "responses" -> ResponsesResponse(answer)
    [] adapter = "invoke" -> InvokeResponse(answer)
    [] adapter \in {"gemini", "vertex"} -> GeminiResponse(answer)
    [] adapter = "workers" -> WorkersResponse(answer)
    [] adapter = "vercel" -> VercelText(answer)
    [] adapter = "llamaindex" -> LlamaIndexText(answer)

ExtractedFromStream(adapter, answer) ==
  CASE adapter = "openai" -> OpenAIStream(answer)
    [] adapter = "anthropic" -> AnthropicStream(answer)
    [] adapter \in {"converse", "invoke"} -> BedrockStream(answer)
    [] adapter = "gemini" -> GeminiStream(answer)
    [] adapter = "responses" -> ResponsesStream(answer)
    [] adapter = "vertex" -> GeminiResponse(answer)
    [] adapter = "vercel" -> VercelText(answer)
    [] adapter = "llamaindex" -> LlamaIndexText(answer)

\* A stream that streaming_mode skips leaves no event, not even of an error.
Unobserved(r) ==
  /\ r.about.streams /\ r.about.skip /\ ~r.about.monitor
  /\ Wrapped(r) \/ r.about.adapter \in {"vertex", "workers"}

\* What the event says of an outcome: an error, a value, a stream handed on to be read, or
\* one of an unexpected shape.  A sampled-out call is silent.
Said(r, what) == IF r.audited THEN what ELSE "none"

WrapSays(r, outcome) ==
  CASE Unobserved(r) \/ outcome = "stream" -> "none"
    [] ~Unobserved(r) /\ outcome = "error" -> "error"
    [] OTHER -> Said(r, "completed")
VertexSays(r, outcome) ==
  CASE Unobserved(r) \/ outcome \in {"stream", "shapeless"} -> "none"
    [] ~Unobserved(r) /\ outcome = "error" -> "error"
    [] OTHER -> Said(r, "completed")
WorkersSays(r, outcome) ==
  CASE Unobserved(r) -> "none"
    [] ~Unobserved(r) /\ outcome = "error" -> "error"
    [] OTHER -> Said(r, "completed")
VercelSays(r, outcome) ==
  CASE outcome = "error" -> Said(r, "error")
    [] outcome = "value" -> Said(r, "completed")
    [] OTHER -> "none"
LlamaIndexSays(r, outcome) ==
  CASE outcome = "error" -> "error"
    [] outcome = "value" -> Said(r, "completed")
    [] OTHER -> "none"
BedrockSays(r, outcome) ==
  CASE outcome = "error" -> "error"
    [] outcome \in {"value", "shapeless"} -> Said(r, "completed")
    [] OTHER -> "none"
Says(r, outcome) ==
  CASE Wrapped(r) -> WrapSays(r, outcome)
    [] r.about.adapter = "vertex" -> VertexSays(r, outcome)
    [] r.about.adapter = "workers" -> WorkersSays(r, outcome)
    [] r.about.adapter = "vercel" -> VercelSays(r, outcome)
    [] r.about.adapter = "llamaindex" -> LlamaIndexSays(r, outcome)
    [] OTHER -> BedrockSays(r, outcome)

\* What it says of a stream that was watched and ended: drained, broken off, left by its
\* caller, or never begun.  A generator runs its finally only once begun; a transform is
\* flushed only when drained; Vertex's aggregate settles without the caller.
WrapStreamSays(ending) ==
  CASE ending = "drained" -> "completed" [] ending = "broken" -> "error"
    [] ending = "left" -> "incomplete" [] ending = "unread" -> "none"
VertexStreamSays(ending) == IF ending = "broken" THEN "error" ELSE "completed"
VercelStreamSays(ending) == IF ending = "drained" THEN "completed" ELSE "none"
LlamaIndexStreamSays(r, ending) ==
  CASE ending = "drained" -> Said(r, "completed") [] ending = "broken" -> "error" [] OTHER -> "none"
BedrockStreamSays(ending) ==
  CASE ending \in {"drained", "left"} -> "completed" [] ending = "broken" -> "error" [] ending = "unread" -> "none"
StreamSays(r, ending) ==
  CASE Wrapped(r) -> WrapStreamSays(ending)
    [] r.about.adapter = "vertex" -> VertexStreamSays(ending)
    [] r.about.adapter = "vercel" -> VercelStreamSays(ending)
    [] r.about.adapter = "llamaindex" -> LlamaIndexStreamSays(r, ending)
    [] OTHER -> BedrockStreamSays(ending)

Ends(r, place, says) == Goes(IF says = "none" THEN r ELSE Tells(r, says), place)
Hears(r, answer, heard) == [r EXCEPT !.answer = answer, !.heard = IF r.audited THEN heard ELSE {}]

ProviderRefuses == req.at = "sent" /\ req' = Ends(req, "failed", Says(req, "error"))

ProviderReturns ==
  /\ req.at = "sent" /\ ~req.about.streams
  /\ \E answer \in Answers : \E heard \in ExtractedFromValue(Adapter, answer) :
       req' = Ends(Hears(req, answer, heard), "answered", Says(req, "value"))

\* Workers' streams are handed on as they are, and those of calls that leave no event.
Watched(r) ==
  /\ r.about.adapter # "workers" /\ ~Unobserved(r)
  /\ r.audited \/ r.about.adapter = "llamaindex"

ProviderOpensStream ==
  /\ req.at = "sent" /\ req.about.streams
  /\ \E answer \in Answers :
       LET r == Hears(req, answer, {}) IN
       \/ req' = Ends(r, IF Watched(r) THEN "streaming" ELSE "answered", Says(r, "stream"))
       \/ Adapter # "llamaindex" /\ req' = Ends(Marked(r, "shapeless"), "answered", Says(r, "shapeless"))

\* The first chunk reaches the caller.
StreamRead == req.at = "streaming" /\ req' = Goes(req, "reading")

StreamDrained ==
  /\ req.at = "reading"
  /\ \E heard \in ExtractedFromStream(Adapter, req.answer) :
       req' = Ends(Hears(req, req.answer, heard), "answered", StreamSays(req, "drained"))

StreamBreaks == req.at = "reading" /\ req' = Ends(req, "failed", StreamSays(req, "broken"))

StreamLeft ==
  /\ req.at \in {"streaming", "reading"} /\ Adapter # "vertex"
  /\ IF req.at = "streaming" THEN req' = Ends(req, "left", StreamSays(req, "unread"))
     ELSE \E heard \in {{}, Text(req.answer)} :
            req' = Ends(Hears(req, req.answer, heard), "left", StreamSays(req, "left"))

RequestDone == req.at \in {"refused", "answered", "failed", "left"} /\ UNCHANGED req

RequestNext ==
  \/ ReadRequest \/ HistoryGrows \/ Allow \/ RefuseRequest \/ DecideRedaction \/ Redact \/ Leave
  \/ ProviderRefuses \/ ProviderReturns \/ ProviderOpensStream
  \/ StreamRead \/ StreamDrained \/ StreamBreaks \/ StreamLeft \/ RequestDone

----------------------------------------------------------------------------
(* Properties *)

\* A redaction that PII policy decided leaves nothing the built-in redactor locates in
\* what the scan read, unless LlamaIndex sends the anonymizer's text or a chat's history
\* grew while the call was on its way; entities are gone where Presidio verified it (the
\* wrapper) or rewrote the text.  One that a rule or a hook decided may miss what only the
\* assertion finds, and what a wrapped Google model keeps.
RequestRedaction ==
  req.at \notin {"given", "judging", "redacting", "refused"} /\ req.by # "none" =>
    LET left == Holds(req.out, Reads(Adapter)) IN
    /\ "span" \in left =>
         \/ "grew" \in req.marks
         \/ req.about.presidio = "both" /\ (Adapter = "llamaindex" \/ (Adapter = "vercel" /\ req.by = "policy"))
         \/ req.by = "policy" /\ "span" \in Holds(req.out, {"odd", "held", "fixed"})
    /\ "entity" \in left =>
         \/ ~Wrapped(req)
         \/ req.by = "policy"
         \/ "entity" \notin req.named

\* Governance rewrites a copy: what the caller and the provider's object hold changes
\* only where it is the thing that goes out, a chat's history and a Bedrock command.
CallerKeeps ==
  \A s \in Slots :
    \/ req.own[s] = req.about.content[s]
    \/ Adapter \in Keepers /\ s = "held"
    \/ Adapter \in {"converse", "invoke"}

\* The record has one event of a refusal, and one of what policy acted on, monitor mode
\* watches or the provider failed; save unreadable context, a stream that is skipped, is of an
\* unexpected shape or is left, and Vercel, which sees no stream break.
RequestOnRecord ==
  LET lost == \/ Unobserved(req) \/ "shapeless" \in req.marks
              \/ Adapter = "vercel" /\ req.at = "failed"
              \/ req.at = "left" IN
  /\ req.events <= 1
  /\ req.at = "refused" => req.told = IF "opaque" \in req.marks THEN "none" ELSE "blocked"
  /\ req.at = "failed" => req.told = "error" \/ lost
  /\ req.at \in {"answered", "failed", "left"} /\ (req.by # "none" \/ req.about.monitor) => req.events = 1 \/ lost

\* An event that tells of a whole answer holds its text; Workers' streams are not read, of
\* Gemini's only first parts are, and Bedrock tells what was left unread as if it were whole.
AnswerHeard ==
  req.told = "completed" =>
    \/ "text" \in req.heard \/ "text" \notin req.answer
    \/ req.about.streams /\ Adapter \in {"workers", "gemini"}
    \/ "shapeless" \in req.marks
    \/ req.at = "left" /\ Adapter \in {"converse", "invoke"}
=============================================================================
