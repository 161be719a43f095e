----------------------------- MODULE TraceTrees ------------------------------
(***************************************************************************)
(* Trace trees for TraceInputs: an event to scan and up to two siblings.   *)
(***************************************************************************)
EXTENDS Integers, SequencesExt, TLC

Part(text) == [text |-> text, image |-> FALSE]
Image == [text |-> "", image |-> TRUE]
Message(role, parts) == [role |-> role, content |-> parts]

Blank ==
  [id |-> "e", type |-> "llm", messages |-> <<>>, input |-> <<>>,
   response |-> "", output |-> "", attributes |-> <<>>, toolCall |-> "",
   gated |-> FALSE, name |-> "", arguments |-> "", documents |-> {},
   misshapen |-> FALSE, said |-> [messages |-> <<>>, response |-> ""]]

Saying(e, messages, response) ==
  [e EXCEPT !.said = [messages |-> messages, response |-> response]]

Native(messages, response) ==
  [Saying(Blank, messages, response) EXCEPT
     !.messages = messages, !.response = response]

(* Conversations: texts of every role, one without a text.                 *)
Conversations ==
  {<<Message("system", <<Part("s")>>), Message("user", <<Part("u")>>)>>,
   <<Message("user", <<Part("u")>>), Message("assistant", <<>>)>>,
   <<Message("developer", <<Part("d")>>)>>}

(* The attributes of a conversation whose first message has number 9, and  *)
(* of its answer, which comes with another one before it or by itself.     *)
Attribute(base, index, field, value) ==
  [base |-> base, index |-> index, field |-> field, value |-> value]

Exported(messages) ==
  UNION {{Attribute("llm.input_messages", 8 + k, "role", messages[k].role)}
         \union {Attribute("llm.input_messages", 8 + k, "content", p.text) :
                   p \in ToSet(messages[k].content)} : k \in DOMAIN messages}

Answers ==
  {{Attribute("output.value", 0, "", "r")},
   {Attribute("llm.output_messages", 0, "content", "q"),
    Attribute("llm.output_messages", 1, "content", "r")}}

(* Inputs that are JSON: a conversation, the list with nothing in it, a    *)
(* list of strings, which holds no message, and an object.                 *)
JsonListTexts ==
  "[messages]" :> <<Message("system", <<Part("s")>>), Message("user", <<Part("u")>>)>>
  @@ "[]" :> <<>>
  @@ "[strings]" :> <<Message("", <<>>)>>

JsonObjectTexts == "{object}" :> "{repr}"

InputSpan(messages, value) ==
  [Saying(Blank, messages, "")
     EXCEPT !.attributes = <<Attribute("input.value", 0, "", value)>>]

Typed(value) == InputSpan(<<Message("user", <<Part(value)>>)>>, value)

InputSpans ==
  {InputSpan(JsonListTexts[v], v) : v \in DOMAIN JsonListTexts}
  \union {Typed(v) : v \in {"u"} \union DOMAIN (JsonListTexts @@ JsonObjectTexts)}

RawSpans ==
  UNION {{[Saying(Blank, c, "r") EXCEPT !.attributes = order] :
            order \in SetToSeqs(Exported(c) \union answer)} :
         c \in Conversations, answer \in Answers}
  \union InputSpans

Natives ==
  {Native(c, r) : c \in Conversations, r \in {"", "r"}}
  \union {[Native(c, "r") EXCEPT !.gated = TRUE] : c \in Conversations}

(* Images: alone, beside a text, and alone in two messages.                *)
Illustrated ==
  {Native(<<Message("user", <<Image>>)>>, r) : r \in {"", "r"}}
  \union {Native(<<Message("user", <<Part("u"), Image>>)>>, ""),
          Native(<<Message("user", <<Image>>), Message("user", <<Image>>)>>, "")}

ToolRow == [Blank EXCEPT !.id = "t", !.type = "tool", !.name = "shell",
                         !.arguments = "args", !.output = "out"]
ToolSpan == [Saying(Blank, <<>>, "out") EXCEPT
               !.id = "t", !.type = "tool",
               !.attributes = <<Attribute("tool.name", 0, "", "shell"),
                                Attribute("output.value", 0, "", "out")>>]
Store(misshapen) ==
  [Blank EXCEPT !.id = "v", !.type = "vectorstore", !.documents = {"doc"},
                !.misshapen = misshapen]

TraceTrees ==
  {{e, ToolRow} : e \in RawSpans \union Natives \union Illustrated}
  \union {{e, ToolRow, Store(m)} : e \in Natives, m \in BOOLEAN}
  \union {{e, ToolSpan} : e \in Natives}
===============================================================================
