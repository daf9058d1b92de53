------------------------------- MODULE MCSpeech -------------------------------
EXTENDS Speech

Body(text) ==
  [k \in Members |-> CASE k = "model" -> "m" [] k = "voice" -> "v"
                       [] k = "input" -> text [] OTHER -> Absent]
Extra == [k \in Members |-> IF k = "text" THEN "extra" ELSE Absent]

\* Every provider with every kind of format, extra body and markup; the body
\* holds a text of the cluster's when a parameter has replaced the input.
MCCalls ==
  [provider: {"openai", "deepgram", "elevenlabs", "koemotion", "volcengine",
              "microsoft", "cosyvoice", "unknown"},
   input: {"text"}, form: {"plain", "speak", "speakOnly", "speakEmpty", "broken"},
   inner: {"inner"}, voice: {"v"}, model: {"m"}, format: {Absent, "", "mp3", "flac"},
   extra: {<<>>, Extra}, extraFits: BOOLEAN, rate: {44100, 48000},
   disableSSML: BOOLEAN, outputFormat: {Absent, "riff"},
   body: {Body("text"), Body("patched")}]

\* Of the calls that differ in what their provider does not read, one.
MCDistinctCalls ==
  {c \in MCCalls :
     /\ c.provider # "microsoft" =>
          /\ c.form = "plain" /\ c.rate = 48000 /\ c.extraFits
          /\ ~c.disableSSML /\ c.outputFormat = Absent
     /\ c.provider # "openai" => c.body = Body("text")
     /\ c.provider \notin {"elevenlabs", "koemotion"} => c.extra = <<>>
     /\ c.provider \notin {"microsoft", "volcengine", "cosyvoice"} =>
          c.format = "mp3"}

MCAnswers ==
  [net: BOOLEAN, status: {200, 429}, readable: BOOLEAN, json: BOOLEAN,
   body: {[error |-> e, objectIsError |-> FALSE, message |-> "absent"] :
            e \in {"absent", "map"}}]
===============================================================================
