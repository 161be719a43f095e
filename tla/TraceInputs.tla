------------------------------ MODULE TraceInputs ------------------------------
(***************************************************************************)
(* What auto_security_scan (jobs/run.py) hands to the scan: the event,     *)
(* normalised when it is a raw OpenInference span (openinference.py), as a *)
(* prompt and a response; the images in it (image_scan.py); and what its   *)
(* siblings in the trace table add (get_indirect_sources of                *)
(* db/clickhouse).  The events of one trace tree are ingested and scanned  *)
(* in any order; a read may fail, or run before a sibling has arrived.     *)
(*                                                                         *)
(* An event has every field the code reads, "" or <<>> standing for an     *)
(* absent one.  A content is a sequence of parts [text |-> , image |-> ].  *)
(* `said` is not a field: it is the conversation a span was exported from. *)
(***************************************************************************)
EXTENDS Ordering, SequencesExt

CONSTANTS
  Trees,       \* sets of events that may make up the trace tree
  JsonLists,   \* JsonLists[v]: the messages in a text v that is a JSON list;
               \* an item that is none has no content
  JsonObjects, \* JsonObjects[v]: Python's spelling of a JSON object v
  SourceLimit, \* the siblings get_indirect_sources reads at most, 50
  MaxFaults    \* bound: failing reads considered

NonScannedRoles == {"system", "developer"}
SourceTypes == {"tool", "function", "vectorstore"}

VARIABLES
  tree,    \* the events of the trace tree
  table,   \* those whose row is in the trace table
  given,   \* given[e]: what the scan of event e was given
  faults   \* reads that failed

allInputsVars == <<tree, table, given, faults>>

Nothing == [prompt |-> <<>>, response |-> "", images |-> <<>>, toolNames |-> {},
            toolInputs |-> {}, toolOutputs |-> {}, contextDocs |-> {}]

InputsInit ==
  /\ tree \in Trees
  /\ table = {}
  /\ given = <<>>
  /\ faults = 0

-----------------------------------------------------------------------------
(* normalize_event.  Attributes come in any order, as [base |-> , index |->*)
(* , field |-> , value |-> ]; the first three are the key.  Of a message,  *)
(* index is its number and field is "role", "content" or "other"; a key    *)
(* without a number has index 0 and field "".                              *)
IsOpenInference(e) == e.attributes # <<>> /\ e.messages = <<>> /\ e.response = ""

Under(e, base) == {i \in DOMAIN e.attributes : e.attributes[i].base = base}

Keyed(e, base, index, field) ==
  {i \in Under(e, base) : /\ e.attributes[i].index = index
                          /\ e.attributes[i].field = field}

Value(e, base, index, field) ==
  LET at == Keyed(e, base, index, field)
  IN IF at = {} THEN "" ELSE e.attributes[Max(at)].value

Scalar(e, base) == Value(e, base, 0, "")

Has(e, base) == Keyed(e, base, 0, "") # {}

Content(value) == IF value = "" THEN <<>> ELSE <<[text |-> value, image |-> FALSE]>>

Entry(e, base, index) ==
  [role |-> Value(e, base, index, "role"),
   content |-> Content(Value(e, base, index, "content"))]

(* Mutant of CollectMessages: messages in the order of their attributes.   *)
CollectMessagesAsMet(e, base) ==
  LET first == {i \in Under(e, base) : \A k \in Under(e, base) :
                  e.attributes[k].index = e.attributes[i].index => i <= k}
      met == Sorted(first)
  IN [k \in DOMAIN met |-> Entry(e, base, e.attributes[met[k]].index)]

(* A message for every index met, whatever was met of it, by number.       *)
Indices(e, base) == {e.attributes[i].index : i \in Under(e, base)}

CollectMessages(e, base) ==
  LET indices == Sorted(Indices(e, base))
  IN [k \in DOMAIN indices |-> Entry(e, base, indices[k])]

(* _maybe_json of the span's input: a JSON list is taken for the messages, *)
(* anything else for a user's text, an object in Python's spelling.        *)
AsText(value) == <<[role |-> "user", content |-> Content(value)]>>

FromInput(value) ==
  IF value \in DOMAIN JsonLists THEN JsonLists[value]
  ELSE IF value \in DOMAIN JsonObjects THEN AsText(JsonObjects[value])
  ELSE AsText(value)

InputMessages(e) ==
  LET collected == CollectMessages(e, "llm.input_messages")
  IN IF collected # <<>> THEN collected
     ELSE IF Has(e, "input.value") THEN FromInput(Scalar(e, "input.value"))
     ELSE <<>>

OutputText(e) ==
  LET value == Scalar(e, "output.value")
      collected == CollectMessages(e, "llm.output_messages")
  IN IF Has(e, "output.value") \/ collected = <<>> THEN value
     ELSE LET parts == Last(collected).content
          IN IF parts = <<>> THEN "" ELSE parts[1].text

(* The tool of a tool span becomes a tool call of the event.               *)
NormalizeEvent(e) ==
  IF ~IsOpenInference(e) THEN e
  ELSE [e EXCEPT !.messages = InputMessages(e),
                 !.response = OutputText(e),
                 !.toolCall = IF @ = "" THEN Scalar(e, "tool.name") ELSE @]

-----------------------------------------------------------------------------
(* _extract_scan_prompt: the contents, flattened to their text parts, of   *)
(* the messages that have one and are not the developer's.                 *)
MessagesOf(e) == IF e.messages # <<>> THEN e.messages ELSE e.input

ContentToText(content) ==
  LET texts == SelectSeq(content, LAMBDA part : part.text # "")
  IN [k \in DOMAIN texts |-> texts[k].text]

ExtractScanPrompt(e) ==
  LET scanned == SelectSeq(MessagesOf(e), LAMBDA m :
                   m.content # <<>> /\ m.role \notin NonScannedRoles)
  IN [k \in DOMAIN scanned |-> ContentToText(scanned[k].content)]

(* The prompt is joined by newlines: it is empty without a message, or     *)
(* with one that has no text, but not with two of those.                   *)
IsBlank(prompt) == prompt \in {<<>>, <<<<>>>>}

ResponseOf(e) == IF e.response # "" THEN e.response ELSE e.output

(* extract_images, of all messages, whoever wrote them.                    *)
ExtractImages(e) ==
  SelectSeq(FlattenSeq([k \in DOMAIN MessagesOf(e) |-> MessagesOf(e)[k].content]),
            LAMBDA part : part.image)

-----------------------------------------------------------------------------
(* get_indirect_sources: rows of the tree's tools and vector stores except *)
(* the event's own; which ones, when there are more than the limit, is the *)
(* database's choice.                                                      *)
Siblings(e) == {r \in table : r.id # e.id /\ r.type \in SourceTypes}

RowsRead(e) ==
  {rows \in SUBSET Siblings(e) :
     \/ rows = Siblings(e) /\ Cardinality(rows) <= SourceLimit
     \/ Cardinality(rows) = SourceLimit}

(* What the rows add.  A vector store's row of another shape raises out of *)
(* the loop, and the caller takes all four lists to be empty.              *)
Sources(rows) ==
  LET tools == {r \in rows : r.type \in {"tool", "function"}}
  IN IF \E r \in rows : r.type = "vectorstore" /\ r.misshapen THEN Nothing
     ELSE [Nothing EXCEPT
             !.toolNames = {r.name : r \in tools} \ {""},
             !.toolInputs = {r.arguments : r \in tools} \ {""},
             !.toolOutputs = {r.output : r \in tools} \ {""},
             !.contextDocs = UNION {r.documents : r \in rows \ tools}]

(* The trace table receives the event's row (external).                    *)
Ingest(e) ==
  /\ e \notin table
  /\ table' = table \union {e}
  /\ UNCHANGED <<tree, given, faults>>

Pending(e) == e \in tree \ DOMAIN given

HandTo(e, inputs) ==
  given' = [d \in DOMAIN given \union {e} |-> IF d = e THEN inputs ELSE given[d]]

(* Without a prompt and a response there is no scan.                       *)
Skip(e) ==
  LET event == NormalizeEvent(e)
  IN /\ Pending(e)
     /\ IsBlank(ExtractScanPrompt(event)) /\ ResponseOf(event) = ""
     /\ HandTo(e, Nothing)
     /\ UNCHANGED <<tree, table, faults>>

RunScan(e, sources) ==
  LET event == NormalizeEvent(e)
  IN /\ Pending(e)
     /\ ~(IsBlank(ExtractScanPrompt(event)) /\ ResponseOf(event) = "")
     /\ HandTo(e, [sources EXCEPT
                     !.prompt = ExtractScanPrompt(event),
                     !.response = IF e.gated THEN "" ELSE ResponseOf(event),
                     !.images = ExtractImages(event)])
     /\ UNCHANGED <<tree, table>>

ReadAndScan(e) ==
  /\ \E rows \in RowsRead(e) : RunScan(e, Sources(rows))
  /\ UNCHANGED faults

ReadFails(e) ==
  /\ faults < MaxFaults
  /\ RunScan(e, Nothing)
  /\ faults' = faults + 1

InputsNext ==
  \E e \in tree : Ingest(e) \/ Skip(e) \/ ReadAndScan(e) \/ ReadFails(e)

InputsSpec == InputsInit /\ [][InputsNext]_allInputsVars

-----------------------------------------------------------------------------
(* How a conversation becomes a span (external).  The attributes are a     *)
(* dictionary without empty values; each message has a number of its own,  *)
(* in their order, or the only one, a user's, is the span's input, or they *)
(* are its input together, as a JSON list; the answer is the span's output *)
(* or the last of its output messages.                                     *)
Says(e, base, index, field, value) ==
  IF value = "" THEN Keyed(e, base, index, field) = {}
  ELSE \E i \in Keyed(e, base, index, field) : e.attributes[i].value = value

TextOf(content) == IF content = <<>> THEN "" ELSE content[1].text

SaysMessage(e, base, index, message) ==
  /\ message.content = Content(TextOf(message.content))
  /\ message = [role |-> message.role, content |-> message.content]
  /\ Says(e, base, index, "role", message.role)
  /\ Says(e, base, index, "content", TextOf(message.content))

IsDictionary(e) ==
  \A i, j \in DOMAIN e.attributes :
    LET a == e.attributes[i]
        b == e.attributes[j]
    IN a.base = b.base /\ a.index = b.index /\ a.field = b.field
       => i = j \/ a.field = "other"

SaysInput(e, messages) ==
  LET base == "llm.input_messages"
  IN \/ /\ messages # <<>>
        /\ \E number \in [DOMAIN messages -> Indices(e, base)] :
             /\ \A j, k \in DOMAIN messages : j < k => number[j] < number[k]
             /\ \A index \in Indices(e, base) :
                  \E k \in DOMAIN messages : number[k] = index
             /\ \A k \in DOMAIN messages :
                  SaysMessage(e, base, number[k], messages[k])
     \/ /\ messages = <<>> /\ Under(e, base) = {}
        /\ Says(e, "input.value", 0, "", "")
     \/ /\ messages # <<>> /\ Under(e, base) = {}
        /\ LET text == TextOf(messages[1].content)
           IN /\ messages = AsText(text)
              /\ text # "" /\ Says(e, "input.value", 0, "", text)
     \/ /\ Under(e, base) = {}
        /\ \E value \in DOMAIN JsonLists :
             messages = JsonLists[value] /\ Says(e, "input.value", 0, "", value)

SaysOutput(e, response) ==
  LET base == "llm.output_messages"
  IN \/ /\ Says(e, "output.value", 0, "", response)
        /\ response # "" \/ Under(e, base) = {}
     \/ /\ Says(e, "output.value", 0, "", "")
        /\ \E last \in Indices(e, base) :
             /\ \A index \in Indices(e, base) : index <= last
             /\ Says(e, base, last, "content", response)

MessageType ==
  [role : STRING, content : Seq([text : STRING, image : BOOLEAN])]
AttributeType == [base : STRING, index : Nat, field : STRING, value : STRING]
Conversation == [messages : Seq(MessageType), response : STRING]

ASSUME JsonAssumption ==
  /\ DOMAIN JsonLists \union DOMAIN JsonObjects \subseteq STRING \ {""}
  /\ \A value \in DOMAIN JsonLists : JsonLists[value] \in Seq(MessageType)
  /\ \A value \in DOMAIN JsonObjects : JsonObjects[value] \in STRING

ASSUME TreesAssumption ==
  \A e \in UNION Trees :
    /\ {"messages", "response", "toolCall"} \subseteq DOMAIN e
    /\ e.attributes \in Seq(AttributeType)
    /\ e.said \in Conversation
    /\ IF IsOpenInference(e)
       THEN /\ IsDictionary(e)
            /\ SaysInput(e, e.said.messages)
            /\ SaysOutput(e, e.said.response)
       ELSE e.said = [messages |-> e.messages, response |-> e.response]

AsNative(e) ==
  [e EXCEPT !.messages = e.said.messages, !.response = e.said.response,
            !.attributes = <<>>]

SamePrompt(e) ==
  LET prompt == ExtractScanPrompt(AsNative(e))
  IN \/ given[e].prompt = prompt
     \/ IsBlank(given[e].prompt) /\ IsBlank(prompt)

(* The span's input is a user's text, and that text is itself JSON.        *)
JsonTyped(e) ==
  LET value == Scalar(e, "input.value")
  IN /\ Under(e, "llm.input_messages") = {}
     /\ value \in DOMAIN JsonLists \union DOMAIN JsonObjects
     /\ e.said.messages = AsText(value)

(* A conversation is scanned the same whether its event is native or comes *)
(* as a raw OpenInference span, in whatever order the attributes stand and *)
(* whichever way the messages came: same texts, same order, same answer,   *)
(* nothing of the developer's.  The prompts that are excepted are those    *)
(* normalize_event takes apart: the span's input is a user's text, and the *)
(* text itself is JSON (TypedJsonReadsAsNative).                           *)
SpanReadsAsNative ==
  \A e \in DOMAIN given :
    /\ SamePrompt(e) \/ JsonTyped(e)
    /\ given[e].response = IF e.gated THEN "" ELSE ResponseOf(AsNative(e))

(* openinference.py: the event is returned "with scanner fields populated  *)
(* from OpenInference attributes"; run.py: "str()-ing that list            *)
(* interleaves Python dict-repr punctuation".  A text that is JSON is      *)
(* scanned as it was written, too.                                         *)
TypedJsonReadsAsNative == \A e \in DOMAIN given : SamePrompt(e)

(* openinference.py: "Tool spans expose the invoked tool - surface it for  *)
(* tool-policy checks".  The scan of such a span is given the tool's name. *)
ToolSpanPolicyChecked ==
  \A e \in DOMAIN given :
    LET tool == NormalizeEvent(e).toolCall
    IN tool # "" => tool \in given[e].toolNames

(* run.py: "OCR any image media in the event so hidden text is scanned for *)
(* injection".                                                             *)
ImagesScanned ==
  \A e \in DOMAIN given :
    ExtractImages(NormalizeEvent(e)) # <<>> => given[e].images # <<>>
===============================================================================
