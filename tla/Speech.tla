-------------------------------- MODULE Speech --------------------------------
(***************************************************************************)
(* Text to speech.  A call of the gateway builds the upstream request of   *)
(* the cluster's provider and hands the answer on; it refuses CosyVoice,   *)
(* which is reached over a WebSocket only.  A call of DoSpeech, which the  *)
(* package cosyvoice exports and no code of the repository calls yet, has  *)
(* that conversation: the caller and a reader goroutine share a            *)
(* connection, a buffer and two channels.  One call is modelled.           *)
(*                                                                         *)
(* A payload is a function from the members a provider knows to their      *)
(* values.  Headers and URLs are left out, but for the voice that          *)
(* ElevenLabs and Deepgram put there.                                      *)
(***************************************************************************)
EXTENDS LLMErrors, Sequences

CONSTANTS
  Calls,       \* [provider, input, form, inner, voice, model, format, extra,
               \*  extraFits, rate, disableSSML, outputFormat, body]: a request
               \*  and the provider it is for
  Answers,     \* what the HTTP upstream may answer
  MaxFrames    \* bound on the audio frames of a task

Members == {"model", "voice", "input", "text", "model_id", "response_format",
            "markup"}
Absent == "absent"
Empty == ""
Silence == "silence"
Envelope == "envelope"

ASSUME SpeechAssumption ==
  /\ MaxFrames \in Nat
  /\ \A c \in Calls : c.body = [k \in Members |-> c.body[k]]

VARIABLES
  call,        \* the call
  main,        \* where the caller's goroutine is
  answer,      \* what it returned
  wire,        \* the text the upstream was sent
  \* the conversation of CosyVoice
  conn,        \* the connection: "none", "open", "broken", "closed"
  toServer,    \* the client events the server has received
  toClient,    \* the messages on their way to the reader
  server,      \* the task at the server
  frames,      \* the frames the server has sent
  reader,      \* where the reader goroutine is
  buffer,      \* audioBinary: the frames the reader has appended
  chanError, chanResult,
  closed       \* the channels that the reader has closed
httpVars  == <<call, wire>>
wireVars  == <<conn, toServer, toClient>>
taskVars  == <<server, frames>>
readVars  == <<reader, buffer, chanError, chanResult, closed>>
speechVars == <<httpVars, main, answer, wireVars, taskVars, readVars>>

NoAnswer    == [kind |-> "none", err |-> NoError, text |-> Silence]
Refused(e)  == [kind |-> "error", err |-> e, text |-> Silence]
Audio(text) == [kind |-> "audio", err |-> NoError, text |-> text]
Panicked    == [kind |-> "panic", err |-> NoError, text |-> Silence]

\* A request of the gateway, or a call of DoSpeech.
SpeechInit ==
  /\ call \in Calls
  /\ main \in IF call.provider = "cosyvoice" THEN {"build", "dial"} ELSE {"build"}
  /\ answer = NoAnswer /\ wire = Absent
  /\ conn = "none" /\ toServer = <<>> /\ toClient = <<>>
  /\ server = "idle" /\ frames = 0
  /\ reader = "none" /\ buffer = 0
  /\ chanError = <<>> /\ chanResult = <<>> /\ closed = {}

-----------------------------------------------------------------------------
\* The upstream requests.

Built(payload)   == [outcome |-> "ok", err |-> NoError, payload |-> payload]
NotBuilt(err)    == [outcome |-> "error", err |-> err, payload |-> <<>>]
BuildPanics      == [outcome |-> "panic", err |-> NoError, payload |-> <<>>]

Payload(text, voice, model, format) ==
  [k \in Members |-> CASE k = "text" -> text [] k = "voice" -> voice
                       [] k = "model" -> model
                       [] k = "response_format" -> format [] OTHER -> Absent]

\* The members of g, and those of f that g lacks.
Over(g, f) == [k \in Members |-> IF g[k] # Absent THEN g[k] ELSE f[k]]

\* Without an extra body there is nothing to merge.
Merge(c, payload) == IF c.extra = <<>> THEN payload ELSE Over(c.extra, payload)

\* The body goes out as it came and was patched.
OpenAISpeech(c) == Built(c.body)

\* The text alone; the voice is the model of the query.
DeepgramSpeech(c) == Built(Payload(c.input, Absent, c.voice, Absent))

\* The body without model, voice and input; the extra body has the last word.
KoemotionSpeech(c) ==
  Built(Merge(c, [c.body EXCEPT !["model"] = Absent, !["voice"] = Absent,
                                !["input"] = Absent, !["text"] = c.input]))

\* The same with the model, and the voice as the last element of the path.
ElevenLabsSpeech(c) ==
  LET rest == [c.body EXCEPT !["model"] = Absent, !["input"] = Absent,
                             !["text"] = c.input, !["model_id"] = c.model]
  IN  Built([Merge(c, rest) EXCEPT !["voice"] = c.voice])

\* lo.Ternary evaluates both of its values: without a format this dereferences
\* nil, the default mp3 is for a format that is empty.
VolcengineSpeech(c) ==
  IF c.format = Absent THEN BuildPanics
  ELSE Built(Payload(c.input, c.voice, Absent,
                     IF c.format = Empty THEN "mp3" ELSE c.format))

(***************************************************************************)
(* Microsoft: the text is put into SSML, unless the extra body disables it *)
(* or the input is SSML without a text.  c.form is what the input is:      *)
(* "plain"; "speak" and "speakOnly", SSML with its text inside or outside  *)
(* of <voice>; "speakEmpty"; "broken", markup that does not parse.         *)
(* c.inner is the text SSML holds.                                         *)
(***************************************************************************)
AsIs(text)         == [markup |-> Absent, text |-> text]
formatAsSSML(text) == [markup |-> "ssml", text |-> text]

processSSML(c) ==
  IF c.disableSSML \/ c.form = "speakEmpty" THEN AsIs(c.input)
  ELSE formatAsSSML(IF c.form \in {"speak", "speakOnly"} THEN c.inner ELSE c.input)

supportedOutputFormats ==
  {<<"mp3", 16000>>, <<"mp3", 24000>>, <<"mp3", 48000>>,
   <<"opus", 16000>>, <<"opus", 24000>>, <<"opus", 48000>>,
   <<"wav", 8000>>, <<"wav", 16000>>, <<"wav", 22050>>, <<"wav", 24000>>,
   <<"wav", 44100>>, <<"wav", 48000>>}

\* The first of the table's formats stands for the pair.
getOutputFormat(format, sampleRate) ==
  IF <<format, sampleRate>> \in supportedOutputFormats
  THEN <<format, sampleRate>> ELSE <<>>

\* c.outputFormat is the format that the client's or the cluster's headers name.
MicrosoftSpeech(c) ==
  LET format == IF c.outputFormat # Absent THEN <<c.outputFormat>>
                ELSE IF c.format \in {Absent, Empty} THEN <<"mp3", 48000>>
                ELSE getOutputFormat(c.format, c.rate)
      spoken == processSSML(c)
  IN  IF ~c.extraFits THEN NotBuilt(PlainError)
      ELSE IF format = <<>> THEN NotBuilt(OpenAIBadRequest)
      ELSE Built([Payload(spoken.text, c.voice, Absent, format) EXCEPT
                    !["markup"] = spoken.markup])

\* The choice by the provider of the cluster.
BuildSpeechRequest(c) ==
  CASE c.provider = "openai"     -> OpenAISpeech(c)
    [] c.provider = "deepgram"   -> DeepgramSpeech(c)
    [] c.provider = "elevenlabs" -> ElevenLabsSpeech(c)
    [] c.provider = "koemotion"  -> KoemotionSpeech(c)
    [] c.provider = "volcengine" -> VolcengineSpeech(c)
    [] c.provider = "microsoft"  -> MicrosoftSpeech(c)
    [] c.provider = "cosyvoice"  -> NotBuilt(PlainError) \* ErrWebSocketOnlyProvider
    [] OTHER -> NotBuilt(OpenAIBadRequest)

\* The member in which a provider looks for the text.
TextOf(c, payload) ==
  payload[IF c.provider = "openai" THEN "input" ELSE "text"]

-----------------------------------------------------------------------------
(***************************************************************************)
(* A call of the gateway.  The answers: net (there is none), status,       *)
(* readable (the body can be read to its end), json, and body, its error   *)
(* members.                                                                *)
(***************************************************************************)

\* What the body of an answer holds: Koemotion and Volcengine put the audio into
\* a JSON document.
BodyOf(c) == IF c.provider \in {"koemotion", "volcengine"} THEN Envelope ELSE wire

\* UnmarshalResponseBody: the body is handed on as it came, the envelope too;
\* the parsers of the providers' packages have no caller.
UnmarshalResponseBody(c, a) ==
  LET err == ParseErrorResponse(a.json, a.body, a.status)
  IN  IF a.status < 400 THEN Audio(BodyOf(c))
      ELSE IF ~a.readable THEN Refused(ErrorInternalError)
      ELSE Refused(IF err.type = "openai" THEN err ELSE OpenAIBadGateway)

ReturnAnswer(a) == main' = "returned" /\ answer' = a

Build ==
  /\ main = "build"
  /\ LET b == BuildSpeechRequest(call)
     IN  \/ /\ b.outcome = "ok"
            /\ wire' = TextOf(call, b.payload)
            /\ main' = "upstream"
            /\ UNCHANGED answer
         \/ /\ b.outcome = "error"
            /\ ReturnAnswer(Refused(LLMErrorOrInternalError(b.err)))
            /\ UNCHANGED wire
         \/ /\ b.outcome = "panic"
            /\ ReturnAnswer(Panicked)
            /\ UNCHANGED wire
  /\ UNCHANGED <<call, wireVars, taskVars, readVars>>

Answer ==
  /\ main = "upstream"
  /\ \E a \in Answers :
       ReturnAnswer(IF a.net THEN Refused(ErrorBadGateway)
                    ELSE UnmarshalResponseBody(call, a))
  /\ UNCHANGED <<httpVars, wireVars, taskVars, readVars>>

-----------------------------------------------------------------------------
(***************************************************************************)
(* CosyVoice: the caller.  It dials, starts the reader, sends run-task and *)
(* waits for one of the channels; it does not watch its context.           *)
(***************************************************************************)
Dial ==
  /\ main = "dial"
  /\ \/ /\ conn' = "open" /\ reader' = "read" /\ main' = "run"
        /\ UNCHANGED answer
     \/ /\ \E a \in Answers : \* without an answer, or with one that refuses
             ReturnAnswer(IF a.net THEN Refused(OpenAIBadGateway)
                          ELSE Refused(ParseUpstreamError(a.json, a.body, a.status)))
        /\ UNCHANGED <<conn, reader>>
  /\ UNCHANGED <<httpVars, toServer, toClient, taskVars, buffer, chanError,
                 chanResult, closed>>

\* The connection is closed whichever way the caller leaves.
LeaveWith(a) == ReturnAnswer(a) /\ conn' = "closed"

\* A write reaches the server, fails, or is lost in a broken connection.
Write(ev) ==
  \/ conn = "open" /\ toServer' = Append(toServer, ev)
  \/ conn # "open" /\ UNCHANGED toServer

WriteFails == conn # "open"

\* Again a nil format is dereferenced before the default is taken.
RunTask ==
  /\ main = "run"
  /\ \/ /\ call.format = Absent
        /\ LeaveWith(Panicked) /\ UNCHANGED toServer
     \/ /\ call.format # Absent
        /\ Write("run-task") /\ main' = "select"
        /\ UNCHANGED <<answer, conn>>
     \/ /\ call.format # Absent /\ WriteFails
        /\ LeaveWith(Refused(OpenAIInternalError)) /\ UNCHANGED toServer
  /\ UNCHANGED <<httpVars, toClient, taskVars, readVars>>

\* What the caller has when its text was spoken in whole.
Heard(n) == IF n = frames /\ server = "finished" THEN wire ELSE Silence

\* A channel is ready when it holds a value or is closed, and the select takes
\* any that is; when none is, the caller parks until one is.  A closed empty
\* channel gives its zero value: no error, or a result that was never sent.
ErrorReady  == chanError # <<>> \/ "chanError" \in closed
ResultReady == chanResult # <<>> \/ "chanResult" \in closed

TakeError ==
  /\ main \in {"select", "parked"} /\ ErrorReady
  /\ IF chanError # <<>>
     THEN LeaveWith(Refused(Head(chanError))) /\ chanError' = Tail(chanError)
     ELSE LeaveWith([NoAnswer EXCEPT !.kind = "nil"]) /\ UNCHANGED chanError
  /\ UNCHANGED <<httpVars, toServer, toClient, taskVars, reader, buffer,
                 chanResult, closed>>

TakeResult ==
  /\ main \in {"select", "parked"} /\ ResultReady
  /\ LeaveWith(Audio(Heard(buffer)))
  /\ chanResult' = IF chanResult # <<>> THEN Tail(chanResult) ELSE chanResult
  /\ UNCHANGED <<httpVars, toServer, toClient, taskVars, reader, buffer,
                 chanError, closed>>

Park ==
  /\ main = "select" /\ ~ErrorReady /\ ~ResultReady
  /\ main' = "parked"
  /\ UNCHANGED <<httpVars, answer, wireVars, taskVars, readVars>>

\* A parked caller was handed its answer by the reader.
Leave ==
  /\ main = "leaving"
  /\ LeaveWith(answer)
  /\ UNCHANGED <<httpVars, toServer, toClient, taskVars, readVars>>

-----------------------------------------------------------------------------
(***************************************************************************)
(* CosyVoice: the reader goroutine.                                        *)
(***************************************************************************)
ChannelSize == 1

\* The reader goes to "error" or "failed" to send on chanError, after which it
\* returns or reads on.
OnMessageEarly(m) ==
  CASE m = "frame"         -> "read"
    [] m = "task-started"  -> "text"
    [] m = "task-failed"   -> "failed"
    [] m = "result-generated" -> "result"
    [] m = "task-finished" -> "result"
    [] OTHER               -> "error"

\* A message that is no JSON ends the reader; an event it does not know does
\* not.
OnMessage(m) ==
  CASE m \in {"frame", "result-generated"} -> "read"
    [] m = "task-started"  -> "text"
    [] m = "task-failed"   -> "failed"
    [] m = "task-finished" -> "result"
    [] m = "garbage"       -> "error"
    [] OTHER               -> "read"

ReadMessage ==
  /\ reader = "read" /\ toClient # <<>>
  /\ toClient' = Tail(toClient)
  /\ reader' = OnMessage(Head(toClient))
  /\ buffer' = IF Head(toClient) = "frame" THEN buffer + 1 ELSE buffer
  /\ UNCHANGED <<httpVars, main, answer, conn, toServer, taskVars, chanError,
                 chanResult, closed>>

\* A connection that is gone loses what it has not delivered.
ReadFails ==
  /\ reader = "read" /\ conn # "open"
  /\ toClient' = <<>>
  /\ reader' = "error"
  /\ UNCHANGED <<httpVars, main, answer, conn, toServer, taskVars, buffer,
                 chanError, chanResult, closed>>

\* A reader that ends the task before it has sent the text.
WriteTextLast ==
  /\ reader \in {"text", "finish"}
  /\ Write(IF reader = "finish" THEN "continue-task" ELSE "finish-task")
  /\ wire' = IF reader = "finish" /\ conn = "open" THEN call.input ELSE wire
  /\ reader' = IF reader = "text" THEN "finish" ELSE "read"
  /\ UNCHANGED <<call, main, answer, conn, toClient, taskVars, buffer, chanError,
                 chanResult, closed>>

\* The text, then the end of the task.
WriteText ==
  /\ reader \in {"text", "finish"}
  /\ \/ /\ Write(IF reader = "text" THEN "continue-task" ELSE "finish-task")
        /\ wire' = IF reader = "text" /\ conn = "open" THEN call.input ELSE wire
        /\ reader' = IF reader = "text" THEN "finish" ELSE "read"
     \/ /\ WriteFails
        /\ reader' = "error"
        /\ UNCHANGED <<toServer, wire>>
  /\ UNCHANGED <<call, main, answer, conn, toClient, taskVars, buffer, chanError,
                 chanResult, closed>>

AfterError == reader' = IF reader = "error" THEN "close" ELSE "read"
ErrorSent == IF reader = "error" THEN OpenAIInternalError ELSE OpenAIBadRequest

\* A send on a channel without a buffer: the caller must be waiting.
SendErrorUnbuffered ==
  /\ reader \in {"error", "failed"} /\ main = "parked"
  /\ main' = "leaving" /\ answer' = Refused(ErrorSent)
  /\ AfterError
  /\ UNCHANGED <<httpVars, wireVars, taskVars, buffer, chanError, chanResult,
                 closed>>

\* The send hands over to a parked caller, fills the channel, or blocks while
\* the channel is full.
SendError ==
  /\ reader \in {"error", "failed"}
  /\ \/ /\ main = "parked"
        /\ main' = "leaving" /\ answer' = Refused(ErrorSent)
        /\ UNCHANGED chanError
     \/ /\ main # "parked" /\ Len(chanError) < ChannelSize
        /\ chanError' = Append(chanError, ErrorSent)
        /\ UNCHANGED <<main, answer>>
  /\ AfterError
  /\ UNCHANGED <<httpVars, wireVars, taskVars, buffer, chanResult, closed>>

SendResult ==
  /\ reader = "result"
  /\ \/ /\ main = "parked"
        /\ main' = "leaving" /\ answer' = Audio(Heard(buffer))
        /\ UNCHANGED chanResult
     \/ /\ main # "parked" /\ Len(chanResult) < ChannelSize
        /\ chanResult' = Append(chanResult, "done")
        /\ UNCHANGED <<main, answer>>
  /\ reader' = "read"
  /\ UNCHANGED <<httpVars, wireVars, taskVars, buffer, chanError, closed>>

\* The deferred closes, the last one deferred first.
CloseChannels ==
  /\ reader = "close"
  /\ closed' = closed \cup {IF closed = {} THEN "chanError" ELSE "chanResult"}
  /\ reader' = IF closed = {} THEN "close" ELSE "ended"
  /\ UNCHANGED <<httpVars, main, answer, wireVars, taskVars, buffer, chanError,
                 chanResult>>

-----------------------------------------------------------------------------
(***************************************************************************)
(* The server keeps to the protocol: it starts a task it was asked to run, *)
(* speaks a text it was sent, and ends the task once, with task-finished   *)
(* after finish-task or with task-failed at any time.  It may break the    *)
(* connection at any time.                                                 *)
(***************************************************************************)
Sent(ev) == \E i \in DOMAIN toServer : toServer[i] = ev

ServerSends(m) == conn = "open" /\ toClient' = Append(toClient, m)

ServerStep ==
  /\ Len(toClient) <= MaxFrames
  /\ \/ /\ server = "idle" /\ Sent("run-task") /\ server' = "started"
        /\ ServerSends("task-started")
        /\ UNCHANGED frames
     \/ /\ server = "started" /\ Sent("continue-task") /\ frames < MaxFrames
        /\ frames' = frames + 1
        /\ ServerSends("frame")
        /\ UNCHANGED server
     \/ /\ server = "started" /\ Sent("continue-task")
        /\ ServerSends("result-generated")
        /\ UNCHANGED taskVars
     \/ /\ server = "started" /\ frames > 0 /\ Sent("finish-task")
        /\ server' = "finished"
        /\ ServerSends("task-finished")
        /\ UNCHANGED frames
     \/ /\ server = "started" /\ server' = "failed"
        /\ \E m \in {"task-failed", "garbage"} : ServerSends(m)
        /\ UNCHANGED frames
  /\ UNCHANGED <<httpVars, main, answer, conn, toServer, readVars>>

ConnectionBreaks ==
  /\ conn = "open" /\ conn' = "broken"
  /\ UNCHANGED <<httpVars, main, answer, toServer, toClient, taskVars, readVars>>

-----------------------------------------------------------------------------
MainStep ==
  \/ Build \/ Answer \/ Dial \/ RunTask
  \/ TakeError \/ TakeResult \/ Park \/ Leave

ReaderStep ==
  ReadMessage \/ ReadFails \/ WriteText \/ SendError \/ SendResult \/ CloseChannels

SpeechNext == MainStep \/ ReaderStep \/ ServerStep \/ ConnectionBreaks

\* Goroutines run, and a server ends its task or the connection.  The last is
\* assumed of the server and not enforced by the code: one that does neither
\* keeps DoSpeech for ever, for it has no deadline and does not watch its context.
SpeechFairness ==
  /\ WF_speechVars(MainStep)
  /\ WF_speechVars(ReaderStep)
  /\ WF_speechVars(server \notin {"finished", "failed"} /\ ConnectionBreaks)

SpeechSpec == SpeechInit /\ [][SpeechNext]_speechVars /\ SpeechFairness

-----------------------------------------------------------------------------

\* As long as the reader lives, DoSpeech hands out audio only when the server
\* has finished the task, and then all of it: frames, results and failures
\* travel through a buffer and two channels (cosyvoice/speech.go:163-293).  A
\* reader that gives up before the caller waits closes chanResult as well, and
\* the caller may take that for a result.
CompleteAudio ==
  answer.kind = "audio" /\ call.provider = "cosyvoice" =>
    \/ server = "finished" /\ answer.text = call.input
    \/ reader = "ended" /\ answer.text = Silence

\* The server is asked to run, to speak and to finish a task, once each and in
\* this order, although two goroutines write (cosyvoice/speech.go:193-227,
\* 261-283): the reader writes only after the server has answered the caller's
\* command.  A write is one step here, so writes that overlap on the connection
\* are not seen.
TaskProtocol ==
  \E n \in 0..3 :
    toServer = SubSeq(<<"run-task", "continue-task", "finish-task">>, 1, n)

\* Once the caller has returned, the reader ends too: what it has left to say
\* fits into the channels that nobody reads any more (speech.go:164-175).
ReaderEnds == (main = "returned" /\ reader # "none") ~> (reader = "ended")

\* Every call returns, whether the task ends, fails or the connection breaks
\* (speech.go:288-293).  A server that stays silent is excluded by the fairness.
SpeechReturns == <>(main = "returned")

\* A call leaves nothing behind: it returns, and its reader goroutine ends with
\* it although the two share bounded channels that only one of them empties.
SpeechEnds == SpeechReturns /\ ReaderEnds
===============================================================================
