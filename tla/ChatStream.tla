----------------------------- MODULE ChatStream -----------------------------
(***************************************************************************)
(* A streamed chat answer, from the first byte on.  Four actors: the       *)
(* upstream that writes lines, the handler's goroutine that reads a line   *)
(* (NextChunk), runs the callbacks of the usage filter and pipes the chunk *)
(* to the client, the client that may leave, and the goroutine of the      *)
(* cluster that waits for the end of the stream to complete the request.   *)
(* A line is its kind: only the kind decides what NextChunk does with it.  *)
(***************************************************************************)
EXTENDS Integers, Sequences, FiniteSets, SequencesExt

CONSTANTS MaxLines,      \* bound: the lines an upstream sends
          LineKinds      \* the kinds of lines it sends

AllLineKinds ==
  {"blank",       \* empty lines, comments, other fields of an event
   "data",        \* a chunk
   "usage",       \* a chunk with a usage
   "emptyUsage",  \* a chunk that mentions completion_tokens outside a usage
   "done",        \* [DONE]
   "error",       \* an error event
   "badData",     \* a chunk that is no JSON
   "badUsage"}    \* a usage chunk that is no JSON or has a malformed usage

ASSUME StreamAssumption == MaxLines \in Nat /\ LineKinds \subseteq AllLineKinds

NoUsage == 0

VARIABLES
  lines,           \* what the upstream has sent
  upstream,        \* "open", "EOF" or "broken"
  client,          \* the client still reads
  read,            \* the number of lines the reader has returned
  hasErrorPrefix,  \* an error event was seen
  eof,             \* eofCancelCtx is done
  usage,           \* ChatCompletionStreamResponse.Usage: the line it is from
  chunk,           \* what NextChunk returns: its kind and its error
  pc,              \* the goroutine of the handler
  written,         \* what was written to the client: the line, 0 for "null",
                   \* -1 for the body of a recovered panic
  reports,         \* the usages the usage service was told
  firstChunks,     \* how often the time of the first chunk was taken
  metaUsage,       \* metadata.LLMUpstreamTokensUsage
  completed,       \* the cluster's goroutine has completed the request
  loggedUsage      \* what the access log shows, -1 before it is written

streamVars == <<lines, upstream, client, read, hasErrorPrefix, eof, usage, chunk, pc,
                written, reports, firstChunks, metaUsage, completed,
                loggedUsage>>

Chunk(kind, err) == [kind |-> kind, err |-> err]
NoChunk == Chunk("none", "nil")

StreamInit ==
  /\ lines = <<>> /\ upstream = "open" /\ client = TRUE
  /\ read = 0 /\ hasErrorPrefix = FALSE /\ eof = FALSE /\ usage = NoUsage
  /\ chunk = NoChunk /\ pc = "read" /\ written = <<>>
  /\ reports = <<>> /\ firstChunks = 0
  /\ metaUsage = NoUsage /\ completed = FALSE /\ loggedUsage = -1

-----------------------------------------------------------------------------
\* The upstream and the client.
UpstreamSends ==
  /\ upstream = "open" /\ Len(lines) < MaxLines
  /\ \E kind \in LineKinds : lines' = Append(lines, kind)
  /\ UNCHANGED <<upstream, client, read, hasErrorPrefix, eof, usage, chunk, pc,
                 written, reports, firstChunks, metaUsage, completed,
                 loggedUsage>>

UpstreamEnds ==
  /\ upstream = "open"
  /\ upstream' \in {"EOF", "broken"}
  /\ UNCHANGED <<lines, client, read, hasErrorPrefix, eof, usage, chunk, pc, written,
                 reports, firstChunks, metaUsage, completed, loggedUsage>>

\* Its context is the context of the upstream request, which breaks off too.
ClientLeaves ==
  /\ client
  /\ client' = FALSE
  /\ upstream' = IF upstream = "open" THEN "broken" ELSE upstream
  /\ UNCHANGED <<lines, read, hasErrorPrefix, eof, usage, chunk, pc, written,
                 reports, firstChunks, metaUsage, completed, loggedUsage>>

-----------------------------------------------------------------------------

\* The chunk and the error NextChunk returns for a line.  A failed usage chunk
\* is returned as nil.
ChunkOf(kind) ==
  CASE kind \in {"blank", "error"}     -> Chunk("empty", "nil")
    [] kind = "data"                   -> Chunk("data", "nil")
    [] kind \in {"usage", "emptyUsage"} -> Chunk("usage", "nil")
    [] kind = "done"                   -> Chunk("done", "EOF")
    [] kind = "badData"                -> Chunk("empty", "parse")
    [] kind = "badUsage"               -> Chunk("nil", "parse")

\* Lines that end the stream.
Ends(kind) == kind \in {"done", "badData", "badUsage"}

\* A reader that swallows the line after a blank one.
NextLineSkips ==
  IF read > 0 /\ read + 1 < Len(lines) /\ lines[read] = "blank" THEN read + 2
  ELSE read + 1

\* The line that ReadBytes returns.
NextLine == read + 1

\* NextChunk with a line.  After an error event every line is dropped.
NextChunk ==
  /\ pc = "read" /\ NextLine <= Len(lines)
  /\ read' = NextLine
  /\ LET kind == lines[NextLine]
     IN  IF hasErrorPrefix
         THEN /\ chunk' = Chunk("empty", "nil")
              /\ eof' = TRUE
              /\ UNCHANGED <<hasErrorPrefix, usage>>
         ELSE /\ chunk' = ChunkOf(kind)
              /\ hasErrorPrefix' = (kind = "error")
              /\ eof' = (eof \/ Ends(kind))
              /\ usage' = CASE kind = "usage"      -> NextLine
                            [] kind = "emptyUsage" -> NoUsage
                            [] OTHER               -> usage
  /\ pc' = "callbacks"
  /\ UNCHANGED <<lines, upstream, client, written, reports, firstChunks,
                 metaUsage, completed, loggedUsage>>

\* A NextChunk that forgets to end the stream when reading fails.
NextChunkFailsSilently ==
  /\ pc = "read" /\ read = Len(lines) /\ upstream # "open"
  /\ chunk' = Chunk("empty", upstream)
  /\ pc' = "callbacks"
  /\ UNCHANGED <<lines, upstream, client, read, hasErrorPrefix, eof, usage, written,
                 reports, firstChunks, metaUsage, completed, loggedUsage>>

\* NextChunk when reading fails: the end of the body or a broken connection.
NextChunkFails ==
  /\ pc = "read" /\ read = Len(lines) /\ upstream # "open"
  /\ chunk' = Chunk("empty", upstream)
  /\ eof' = TRUE
  /\ pc' = "callbacks"
  /\ UNCHANGED <<lines, upstream, client, read, hasErrorPrefix, usage, written,
                 reports, firstChunks, metaUsage, completed, loggedUsage>>

\* The context NextChunk hands its callbacks: eofCancelCtx, which is made from
\* context.Background() and not from the context of the request.
eofCancelCtx == "background"

\* The metadata of a request, with the API key of its caller, is in the context
\* of the request alone.
RequestMetadataFromCtx(ctx) == ctx = "request"

\* The usage filter reports a usage chunk whose usage is there, for a caller that
\* the context tells it.
OnCompletionStreamResponse(ctx) ==
  /\ chunk.kind = "usage"
  /\ usage # NoUsage
  /\ RequestMetadataFromCtx(ctx)

\* The deferred callbacks of NextChunk; the usage filter calls a method of a nil
\* chunk, which panics.
RunCallbacks ==
  /\ pc = "callbacks"
  /\ pc' = IF chunk.kind = "nil" THEN "panicked" ELSE "pipe"
  /\ reports' = IF OnCompletionStreamResponse(eofCancelCtx)
                THEN Append(reports, usage) ELSE reports
  /\ UNCHANGED <<lines, upstream, client, read, hasErrorPrefix, eof, usage, chunk,
                 written, firstChunks, metaUsage, completed, loggedUsage>>

\* Where a pipe goes on that does not stop after the last chunk.
AfterWriteContinues(last) == "read"

\* Where the pipe goes on once an event is written.
AfterWrite(last) == IF last THEN "ended" ELSE "read"

\* Event.MarshalTo.  Once the client is gone a write fails sooner or later, which
\* ends the handler; until then the buffers take it.
MarshalTo(event, next) ==
  \/ written' = Append(written, event) /\ pc' = next
  \/ ~client /\ pc' = "ended" /\ UNCHANGED written

\* pipeCompletionsStream: the last chunk, which is empty unless it is [DONE].
PipeLast ==
  /\ pc = "pipe" /\ chunk.err = "EOF"
  /\ MarshalTo(IF chunk.kind = "done" THEN read ELSE 0, AfterWrite(TRUE))
  /\ UNCHANGED <<lines, upstream, client, read, hasErrorPrefix, eof, usage, chunk,
                 reports, firstChunks, metaUsage, completed, loggedUsage>>

\* Any other error ends the stream without a word.
PipeError ==
  /\ pc = "pipe" /\ chunk.err \notin {"nil", "EOF"}
  /\ pc' = "ended"
  /\ UNCHANGED <<lines, upstream, client, read, hasErrorPrefix, eof, usage, chunk,
                 written, reports, firstChunks, metaUsage, completed,
                 loggedUsage>>

PipeEmpty ==
  /\ pc = "pipe" /\ chunk = Chunk("empty", "nil")
  /\ pc' = "read"
  /\ UNCHANGED <<lines, upstream, client, read, hasErrorPrefix, eof, usage, chunk,
                 written, reports, firstChunks, metaUsage, completed,
                 loggedUsage>>

\* chunkNum counts data lines, [DONE] and broken ones among them.
DataLines == Cardinality({i \in 1..read : lines[i] \notin {"blank", "error"}})

IsFirst == DataLines = 1

PipeChunk ==
  /\ pc = "pipe" /\ chunk.kind \in {"data", "usage"}
  /\ metaUsage' = IF chunk.kind = "usage" /\ usage # NoUsage THEN usage ELSE metaUsage
  /\ firstChunks' = IF IsFirst THEN firstChunks + 1 ELSE firstChunks
  /\ MarshalTo(read, AfterWrite(FALSE))
  /\ UNCHANGED <<lines, upstream, client, read, hasErrorPrefix, eof, usage, chunk,
                 reports, completed, loggedUsage>>

\* WithRecoverWithError after the header is out: an error body is appended.
RecoverStream ==
  /\ pc = "panicked"
  /\ MarshalTo(-1, "ended")
  /\ UNCHANGED <<lines, upstream, client, read, hasErrorPrefix, eof, usage, chunk,
                 reports, firstChunks, metaUsage, completed, loggedUsage>>

\* A completion that resets the usage of the log.
UpstreamResponseCompleteResets ==
  /\ eof /\ ~completed
  /\ metaUsage' = usage
  /\ completed' = TRUE
  /\ UNCHANGED <<lines, upstream, client, read, hasErrorPrefix, eof, usage, chunk, pc,
                 written, reports, firstChunks, loggedUsage>>

\* The cluster's goroutine: WaitUntilEOF, the usage for the log, the completion.
UpstreamResponseComplete ==
  /\ eof /\ ~completed
  /\ metaUsage' = IF usage # NoUsage THEN usage ELSE metaUsage
  /\ completed' = TRUE
  /\ UNCHANGED <<lines, upstream, client, read, hasErrorPrefix, eof, usage, chunk, pc,
                 written, reports, firstChunks, loggedUsage>>

AccessLog ==
  /\ pc = "ended"
  /\ loggedUsage' = metaUsage
  /\ pc' = "logged"
  /\ UNCHANGED <<lines, upstream, client, read, hasErrorPrefix, eof, usage, chunk,
                 written, reports, firstChunks, metaUsage, completed>>

Handler ==
  \/ NextChunk \/ NextChunkFails \/ RunCallbacks \/ PipeLast \/ PipeError
  \/ PipeEmpty \/ PipeChunk \/ RecoverStream \/ AccessLog

StreamNext ==
  \/ UpstreamSends \/ UpstreamEnds \/ ClientLeaves \/ Handler
  \/ UpstreamResponseComplete

\* The goroutines run.  The upstream may stay silent for ever.
StreamSpec ==
  /\ StreamInit /\ [][StreamNext]_streamVars
  /\ WF_streamVars(Handler)
  /\ WF_streamVars(UpstreamResponseComplete)

-----------------------------------------------------------------------------

\* The chunks among what was written are lines that carry one, in the order the
\* upstream sent them and each once (chat_completions_stream.go:265-364,
\* listener/common.go:117-173).
DeliveredInOrder ==
  /\ \A i, j \in DOMAIN written :
       i < j /\ written[i] > 0 /\ written[j] > 0 => written[i] < written[j]
  /\ \A i \in DOMAIN written :
       written[i] > 0 => /\ written[i] <= read
                         /\ lines[written[i]] \in {"data", "usage", "emptyUsage", "done"}

\* Nothing follows [DONE], a final "null" or the body of a panic.
LastWordIsLast ==
  \A i \in DOMAIN written :
    (written[i] <= 0 \/ lines[written[i]] = "done") => i = Len(written)

\* The time to the first chunk is taken once (listener/common.go:163-166).
FirstChunkOnce == firstChunks <= 1

\* What the client sees of a stream is well formed, whenever the upstream fails
\* and whatever it sends: chunks in order and once each, nothing after the last
\* word, one first chunk.
StreamIsWellFormed == DeliveredInOrder /\ LastWordIsLast /\ FirstChunkOnce

\* The usages of the lines that NextChunk has returned: not those after an error
\* event, which it drops.
UsagesRead ==
  {i \in 1..read : lines[i] = "usage" /\ \A j \in 1..i : lines[j] # "error"}

\* The access log shows the last usage that was read, whichever goroutine set it
\* last: the pipe sets the usage of each chunk, the cluster's goroutine the usage
\* of the stream, which a later chunk may have cleared, and the log is written
\* before or after the completion, also when the client left or a later line
\* broke the stream (cluster.go:157-169, listener/common.go:159-161).
LogShowsUsage ==
  pc = "logged" =>
    \/ loggedUsage \in UsagesRead /\ \A i \in UsagesRead : i <= loggedUsage
    \/ loggedUsage = NoUsage /\ UsagesRead = {}

\* The handler ends when the upstream does, and when it is done the completion of
\* the cluster's goroutine runs, except for a client that left; a client that
\* stays but stops reading is not considered, no write of the model blocks
\* (listener/common.go:136-173, chat_completions_stream.go:247-256, 278-288,
\* cluster.go:157-169).
StreamEnds ==
  /\ upstream # "open" ~> pc = "logged"
  /\ (pc = "logged" /\ client) ~> completed

\* The lines an upstream sent up to the first that ends or fails the stream, and
\* what of them is for the client.
Deliverable ==
  {i \in DOMAIN lines :
     /\ lines[i] # "blank"
     /\ \A j \in 1..i : lines[j] \notin {"error", "badData", "badUsage"}
     /\ \A j \in 1..(i - 1) : lines[j] # "done"}

\* What was written but for a last "null" or the body of a panic.
Delivered == IF written # <<>> /\ Last(written) <= 0 THEN Front(written) ELSE written

Relayed == INSTANCE Relay WITH
  Parts     <- 1..MaxLines,
  sent      <- Deliverable,
  delivered <- Delivered,
  over      <- pc \in {"ended", "logged"}

\* The stream is a relay: no chunk is lost between two that are delivered.
ImplementsRelay == Relayed!RelaySpec

\* "The MODE_PER_REQUEST mode means that each time a request is received, the usage
\* of the request will be included." (usage_stats.proto:34-35), the mode of every
\* report of the usage filter (usage.go:117): the usage the log shows of a stream
\* was reported.
StreamIsBilled ==
  pc = "logged" /\ loggedUsage # NoUsage =>
    \E i \in DOMAIN reports : reports[i] = loggedUsage
=============================================================================
