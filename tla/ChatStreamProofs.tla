-------------------------- MODULE ChatStreamProofs --------------------------
(***************************************************************************)
(* Proofs about ChatStream, for streams of any length and any lines: what  *)
(* the client sees is well formed, the log shows the last usage that was   *)
(* read, and the stream implements the relay.                              *)
(***************************************************************************)
EXTENDS ChatStream, FiniteSetTheorems, SequenceTheorems, TLAPS

ChunkKinds == {"none", "empty", "data", "usage", "done", "nil"}
ChunkErrs  == {"nil", "EOF", "broken", "parse"}
Running    == {"read", "callbacks", "pipe", "panicked"}
Handling   == {"callbacks", "pipe", "panicked"}

(* Type correctness.                                                       *)
StreamTypeOK ==
  /\ lines \in Seq(AllLineKinds) /\ Len(lines) <= MaxLines
  /\ upstream \in {"open", "EOF", "broken"}
  /\ client \in BOOLEAN /\ eof \in BOOLEAN
  /\ hasErrorPrefix \in BOOLEAN /\ completed \in BOOLEAN
  /\ read \in 0..Len(lines)
  /\ usage \in Nat /\ metaUsage \in Nat /\ firstChunks \in Nat
  /\ chunk \in [kind : ChunkKinds, err : ChunkErrs]
  /\ pc \in Running \cup {"ended", "logged"}
  /\ written \in Seq(Int) /\ reports \in Seq(Nat)

(* The chunk is the one of the last line read, unless the line gave none.  *)
ChunkFits ==
  /\ chunk.kind \in {"data", "usage", "done", "nil"} =>
       /\ read > 0 /\ chunk = ChunkOf(lines[read])
       /\ \A j \in 1..(read - 1) : lines[j] \notin {"error", "badData", "badUsage", "done"}
  /\ chunk.kind = "usage" => usage = IF lines[read] = "usage" THEN read ELSE NoUsage
  /\ hasErrorPrefix => chunk.kind = "empty"
  /\ pc = "panicked" => chunk.kind = "nil"

(* A stream goes on only after an error event or without any last line.    *)
NothingFatalRead ==
  /\ hasErrorPrefix => \E e \in 1..read : lines[e] = "error"
  /\ (pc = "read" \/ chunk = Chunk("empty", "nil")) /\ ~hasErrorPrefix =>
       \A j \in 1..read : lines[j] \notin {"error", "badData", "badUsage", "done"}

(* Every line for the client that was handled has been written, and no     *)
(* other; the line at hand is written last.                                *)
AllWritten ==
  pc \in Running => \A l \in Deliverable :
    \/ l > read
    \/ l = read /\ pc # "read" /\ chunk.kind \in {"data", "usage", "done"}
    \/ \E i \in DOMAIN written : written[i] = l

NotYetWritten ==
  pc \in Handling /\ chunk.kind \in {"data", "usage", "done"} =>
    \A i \in DOMAIN written : written[i] < read

NoLastWordYet ==
  pc \in Running => \A i \in DOMAIN written : written[i] > 0 /\ lines[written[i]] # "done"

IsData(l) == lines[l] \notin {"blank", "error"}

FirstChunkSeen ==
  /\ firstChunks > 0 => \E l \in 1..read : IsData(l)
  /\ firstChunks > 0 /\ pc \in Handling /\ chunk.kind \in {"data", "usage"} =>
       \E l \in 1..(read - 1) : IsData(l)

(* The inductive invariant of what the client sees.                        *)
StreamInv ==
  /\ StreamTypeOK /\ ChunkFits /\ NothingFatalRead
  /\ AllWritten /\ NotYetWritten /\ NoLastWordYet /\ FirstChunkSeen
  /\ DeliveredInOrder /\ LastWordIsLast /\ FirstChunkOnce

(* A write: the event is taken, or the write fails and ends the handler.   *)
Taken(event) == written' = Append(written, event)
Marshalled(event) == Taken(event) \/ (written' = written /\ pc' = "ended")

(* The last of the usages read so far, or none.                            *)
IsLastUsage(u) ==
  \/ u \in UsagesRead /\ \A i \in UsagesRead : i <= u
  \/ u = NoUsage /\ UsagesRead = {}

(* A usage that was read and that the pipe has not yet noted.              *)
UsageAtHand == pc \in {"callbacks", "pipe"} /\ chunk.kind = "usage" /\ usage # NoUsage

(* The usage of the stream is the last one, unless a later chunk cleared   *)
(* it; the usage for the log is the last one once the pipe has noted it.   *)
UsageIsLast == usage # NoUsage => IsLastUsage(usage)

LogFollows == ~UsageAtHand => IsLastUsage(metaUsage)

(* Once the stream has ended no more usages come.                          *)
EndIsFinal == eof => hasErrorPrefix \/ (pc # "read" /\ chunk.err # "nil")

(* The inductive invariant of the usage, on top of StreamInv.              *)
UsageInv == UsageIsLast /\ LogFollows /\ EndIsFinal /\ LogShowsUsage

-----------------------------------------------------------------------------

(* A line more changes none of the lines before it.                        *)
LEMMA LinesGrow ==
  ASSUME StreamTypeOK, UpstreamSends
  PROVE  /\ lines' \in Seq(AllLineKinds) /\ Len(lines') = Len(lines) + 1
         /\ Len(lines') <= MaxLines
         /\ \A l \in 1..Len(lines) : lines'[l] = lines[l]
         /\ \A l \in Deliverable' : l \in Deliverable \/ l = Len(lines) + 1
         /\ Deliverable \subseteq Deliverable'
<1> USE StreamAssumption
<1>1. PICK kind \in LineKinds : lines' = Append(lines, kind)
  BY DEF UpstreamSends
<1>2. kind \in AllLineKinds /\ lines \in Seq(AllLineKinds) /\ Len(lines) < MaxLines
  BY DEF UpstreamSends, StreamTypeOK
<1>3. /\ lines' \in Seq(AllLineKinds) /\ Len(lines') = Len(lines) + 1 /\ Len(lines) \in Nat
      /\ \A l \in 1..Len(lines) : lines'[l] = lines[l]
      /\ DOMAIN lines = 1..Len(lines) /\ DOMAIN lines' = 1..Len(lines')
  BY <1>1, <1>2
<1>4. Len(lines') <= MaxLines
  BY <1>2, <1>3
<1>5. \A l \in 1..Len(lines) : 1..l \subseteq 1..Len(lines) /\ 1..(l - 1) \subseteq 1..Len(lines)
  BY <1>3
<1>6. \A l \in 1..Len(lines) : l \in Deliverable <=> l \in Deliverable'
  BY <1>3, <1>5 DEF Deliverable
<1>7. \A l \in 1..Len(lines') : l \in 1..Len(lines) \/ l = Len(lines) + 1
  BY <1>3
<1>8. Deliverable \subseteq 1..Len(lines) /\ Deliverable' \subseteq 1..Len(lines')
  BY <1>3 DEF Deliverable
<1>9. QED
  BY <1>3, <1>4, <1>6, <1>7, <1>8

(* What was written, with one more event.                                  *)
LEMMA WrittenGrows ==
  ASSUME written \in Seq(Int), NEW event \in Int, Marshalled(event)
  PROVE  /\ written' \in Seq(Int)
         /\ ~Taken(event) => written' = written /\ pc' = "ended"
         /\ Taken(event) =>
              /\ DOMAIN written' = DOMAIN written \cup {Len(written) + 1}
              /\ DOMAIN written = 1..Len(written) /\ Len(written) \in Nat
              /\ Len(written') = Len(written) + 1
              /\ \A i \in DOMAIN written : written'[i] = written[i]
              /\ written'[Len(written) + 1] = event
<1>1. CASE Taken(event)
  BY <1>1 DEF Taken
<1>2. CASE ~Taken(event)
  BY <1>2 DEF Marshalled
<1>3. QED
  BY <1>1, <1>2

(* The upstream's next line.                                               *)
LEMMA SendsKeepsStream ==
  ASSUME StreamInv, UpstreamSends
  PROVE  StreamInv'
<1>1. /\ UNCHANGED <<upstream, client, read, hasErrorPrefix, eof, usage, chunk, pc,
                     written, reports, firstChunks, metaUsage, completed>>
  BY DEF UpstreamSends
<1>2. /\ lines' \in Seq(AllLineKinds) /\ Len(lines') = Len(lines) + 1
      /\ Len(lines') <= MaxLines
      /\ \A l \in 1..Len(lines) : lines'[l] = lines[l]
      /\ \A l \in Deliverable' : l \in Deliverable \/ l = Len(lines) + 1
  BY LinesGrow DEF StreamInv
<1>3. Len(lines) \in Nat /\ read \in 0..Len(lines) /\ 1..read \subseteq 1..Len(lines)
      /\ 1..(read - 1) \subseteq 1..Len(lines)
  BY DEF StreamInv, StreamTypeOK
<1>4. \A i \in DOMAIN written : written[i] > 0 => written[i] \in 1..Len(lines)
  <2>1. \A i \in DOMAIN written : written[i] \in Int
    BY DEF StreamInv, StreamTypeOK
  <2>2. QED
    BY <1>3, <2>1 DEF StreamInv, DeliveredInOrder
<1>5. StreamTypeOK'
  BY <1>1, <1>2, <1>3 DEF StreamInv, StreamTypeOK
<1>6. ChunkFits'
  <2>1. read > 0 => read \in 1..Len(lines)
    BY <1>3
  <2>2. QED
    BY <1>1, <1>2, <1>3, <2>1 DEF StreamInv, ChunkFits
<1>7. NothingFatalRead'
  BY <1>1, <1>2, <1>3 DEF StreamInv, NothingFatalRead
<1>8. AllWritten'
  <2>1. Len(lines) + 1 > read
    BY <1>3
  <2>2. QED
    BY <1>1, <1>2, <2>1 DEF StreamInv, AllWritten
<1>9. NotYetWritten'
  BY <1>1 DEF StreamInv, NotYetWritten
<1>10. NoLastWordYet'
  BY <1>1, <1>2, <1>4 DEF StreamInv, NoLastWordYet
<1>11. FirstChunkSeen' /\ FirstChunkOnce'
  BY <1>1, <1>2, <1>3 DEF StreamInv, FirstChunkSeen, FirstChunkOnce, IsData
<1>12. DeliveredInOrder'
  BY <1>1, <1>2, <1>4 DEF StreamInv, DeliveredInOrder
<1>13. LastWordIsLast'
  <2>1. \A i \in DOMAIN written : written[i] > 0 \/ written[i] <= 0
    BY DEF StreamInv, StreamTypeOK
  <2>2. QED
    BY <1>1, <1>2, <1>4, <2>1 DEF StreamInv, LastWordIsLast
<1>14. QED
  BY <1>5, <1>6, <1>7, <1>8, <1>9, <1>10, <1>11, <1>12, <1>13 DEF StreamInv

(* The chunk of every kind of line.                                        *)
LEMMA ChunkOfFacts ==
  ASSUME NEW kind \in AllLineKinds
  PROVE  LET c == ChunkOf(kind)
         IN  /\ c \in [kind : ChunkKinds, err : ChunkErrs]
             /\ c.kind = "data" <=> kind = "data"
             /\ c.kind = "usage" <=> kind \in {"usage", "emptyUsage"}
             /\ c.kind = "done" <=> kind = "done"
             /\ c.kind = "nil" <=> kind = "badUsage"
             /\ c.kind = "empty" <=> kind \in {"blank", "error", "badData"}
             /\ c = Chunk("empty", "nil") <=> kind \in {"blank", "error"}
             /\ c.err = "EOF" <=> kind = "done"
             /\ c.err # "nil" <=> Ends(kind)
<1>1. CASE kind \in {"blank", "error"}
  BY <1>1 DEF ChunkOf, Chunk, ChunkKinds, ChunkErrs, Ends
<1>2. CASE kind = "data"
  BY <1>2 DEF ChunkOf, Chunk, ChunkKinds, ChunkErrs, Ends
<1>3. CASE kind \in {"usage", "emptyUsage"}
  BY <1>3 DEF ChunkOf, Chunk, ChunkKinds, ChunkErrs, Ends
<1>4. CASE kind = "done"
  BY <1>4 DEF ChunkOf, Chunk, ChunkKinds, ChunkErrs, Ends
<1>5. CASE kind = "badData"
  BY <1>5 DEF ChunkOf, Chunk, ChunkKinds, ChunkErrs, Ends
<1>6. CASE kind = "badUsage"
  BY <1>6 DEF ChunkOf, Chunk, ChunkKinds, ChunkErrs, Ends
<1>7. QED
  BY <1>1, <1>2, <1>3, <1>4, <1>5, <1>6 DEF AllLineKinds

(* What NextChunk does with the next line.                                 *)
LEMMA NextChunkFacts ==
  ASSUME StreamTypeOK, NextChunk
  PROVE  LET kind == lines[read + 1]
         IN  /\ kind \in AllLineKinds /\ read + 1 \in 1..Len(lines)
             /\ chunk' \in [kind : ChunkKinds, err : ChunkErrs]
             /\ hasErrorPrefix' \in BOOLEAN /\ eof' \in BOOLEAN /\ usage' \in Nat
             /\ hasErrorPrefix' <=> hasErrorPrefix \/ kind = "error"
             /\ hasErrorPrefix' => chunk' = Chunk("empty", "nil") /\ usage' = usage
             /\ ~hasErrorPrefix' => chunk' = ChunkOf(kind)
             /\ chunk'.kind = "usage" => usage' = IF kind = "usage" THEN read + 1 ELSE NoUsage
             /\ chunk'.kind # "usage" => usage' = usage
             /\ eof' => eof \/ hasErrorPrefix' \/ chunk'.err # "nil"
<1> DEFINE n == read + 1
           kind == lines[n]
<1>1. read \in Nat /\ n \in 1..Len(lines) /\ kind \in AllLineKinds
  BY DEF NextChunk, NextLine, StreamTypeOK
<1>2. CASE hasErrorPrefix
  <2>1. chunk' = Chunk("empty", "nil") /\ eof' = TRUE /\ UNCHANGED <<hasErrorPrefix, usage>>
    BY <1>2 DEF NextChunk
  <2>2. QED
    BY <1>1, <1>2, <2>1 DEF Chunk, ChunkKinds, ChunkErrs, StreamTypeOK
<1>3. CASE ~hasErrorPrefix
  <2>1. /\ chunk' = ChunkOf(kind) /\ hasErrorPrefix' = (kind = "error")
        /\ eof' = (eof \/ Ends(kind))
        /\ usage' = CASE kind = "usage" -> n [] kind = "emptyUsage" -> NoUsage
                      [] OTHER -> usage
    BY <1>3 DEF NextChunk, NextLine
  <2>2. /\ kind = "usage" => usage' = n
        /\ kind = "emptyUsage" => usage' = NoUsage
        /\ kind \notin {"usage", "emptyUsage"} => usage' = usage
    BY <2>1
  <2>3. usage' \in Nat
    BY <1>1, <2>2 DEF StreamTypeOK, NoUsage
  <2> HIDE DEF kind, n
  <2>4. /\ chunk' \in [kind : ChunkKinds, err : ChunkErrs]
        /\ chunk'.kind = "usage" <=> kind \in {"usage", "emptyUsage"}
        /\ kind = "error" => chunk' = Chunk("empty", "nil")
        /\ Ends(kind) => chunk'.err # "nil"
    BY <1>1, <2>1, ChunkOfFacts
  <2>5. chunk'.kind = "usage" => usage' = IF kind = "usage" THEN n ELSE NoUsage
    BY <2>2, <2>4
  <2>6. hasErrorPrefix' \in BOOLEAN /\ eof' \in BOOLEAN
    BY <2>1 DEF StreamTypeOK, Ends
  <2>7. kind = "error" => usage' = usage
    BY <2>2
  <2>8. eof' => eof \/ chunk'.err # "nil"
    BY <2>1, <2>4
  <2>9. (hasErrorPrefix' <=> hasErrorPrefix \/ kind = "error") /\ chunk' = ChunkOf(kind)
    BY <1>3, <2>1
  <2>10. chunk'.kind # "usage" => usage' = usage
    BY <2>2, <2>4
  <2>11. QED
    BY <1>1, <1>3, <2>3, <2>4, <2>5, <2>6, <2>7, <2>8, <2>9, <2>10 DEF kind, n
<1>4. QED
  BY <1>2, <1>3

(* NextChunk with a line.                                                  *)
LEMMA NextChunkKeepsStream ==
  ASSUME StreamInv, NextChunk
  PROVE  StreamInv'
<1> DEFINE n == read + 1
           kind == lines[n]
<1>1. /\ pc = "read" /\ pc' = "callbacks" /\ read' = n
      /\ UNCHANGED <<lines, upstream, client, written, reports, firstChunks,
                     metaUsage, completed>>
  BY DEF NextChunk, NextLine
<1>2. /\ n \in 1..Len(lines) /\ read \in Nat /\ n \in Nat /\ kind \in AllLineKinds
      /\ n - 1 = read /\ 1..n = (1..read) \cup {n} /\ n > 0
  BY NextChunkFacts DEF StreamInv, StreamTypeOK
<1>3. /\ chunk' \in [kind : ChunkKinds, err : ChunkErrs]
      /\ hasErrorPrefix' \in BOOLEAN /\ eof' \in BOOLEAN /\ usage' \in Nat
      /\ hasErrorPrefix' <=> hasErrorPrefix \/ kind = "error"
      /\ hasErrorPrefix' => chunk' = Chunk("empty", "nil")
      /\ ~hasErrorPrefix' => chunk' = ChunkOf(kind)
      /\ chunk'.kind = "usage" => usage' = IF kind = "usage" THEN n ELSE NoUsage
  BY NextChunkFacts DEF StreamInv
<1>4. ~hasErrorPrefix => \A j \in 1..read : lines[j] \notin {"error", "badData", "badUsage", "done"}
  BY <1>1 DEF StreamInv, NothingFatalRead
<1> HIDE DEF kind, n
<1>5. hasErrorPrefix' => chunk'.kind = "empty"
  BY <1>3 DEF Chunk
<1>6. StreamTypeOK'
  BY <1>1, <1>2, <1>3 DEF StreamInv, StreamTypeOK, Running
<1>7. ChunkFits'
  BY <1>1, <1>2, <1>3, <1>4, <1>5 DEF ChunkFits, kind
<1>8. NothingFatalRead'
  <2>1. hasErrorPrefix' => \E e \in 1..n : lines[e] = "error"
    BY <1>2, <1>3 DEF StreamInv, NothingFatalRead, kind
  <2>2. chunk' = Chunk("empty", "nil") /\ ~hasErrorPrefix' => kind = "blank"
    BY <1>2, <1>3, ChunkOfFacts
  <2>3. chunk' = Chunk("empty", "nil") /\ ~hasErrorPrefix' =>
          \A j \in 1..n : lines[j] \notin {"error", "badData", "badUsage", "done"}
    BY <1>2, <1>3, <1>4, <2>2 DEF kind
  <2>4. QED
    BY <1>1, <2>1, <2>3 DEF NothingFatalRead
<1>9. AllWritten'
  <2> SUFFICES ASSUME NEW l \in Deliverable, ~(l > n)
               PROVE  \/ l = n /\ chunk'.kind \in {"data", "usage", "done"}
                      \/ \E i \in DOMAIN written : written[i] = l
    BY <1>1 DEF AllWritten, Deliverable
  <2>1. /\ l \in 1..Len(lines) /\ lines[l] # "blank"
        /\ \A j \in 1..l : lines[j] \notin {"error", "badData", "badUsage"}
        /\ Len(lines) \in Nat
    BY DEF Deliverable, StreamInv, StreamTypeOK
  <2>2. CASE l = n
    <3>1. 1..read \subseteq 1..l
      BY <1>2, <2>2
    <3>2. ~hasErrorPrefix'
      <4>1. ~hasErrorPrefix
        BY <2>1, <3>1 DEF StreamInv, NothingFatalRead
      <4>2. kind # "error"
        BY <2>1, <2>2 DEF kind
      <4>3. QED
        BY <1>3, <4>1, <4>2
    <3>3. kind \in {"data", "usage", "emptyUsage", "done"}
      BY <1>2, <2>1, <2>2 DEF kind, AllLineKinds
    <3>4. QED
      BY <1>2, <1>3, <2>2, <3>2, <3>3, ChunkOfFacts
  <2>3. CASE l # n
    <3>1. ~(l > read)
      BY <1>2, <2>1, <2>3
    <3>2. QED
      BY <1>1, <3>1 DEF StreamInv, AllWritten, Running
  <2>4. QED
    BY <2>2, <2>3
<1>10. NotYetWritten' /\ NoLastWordYet' /\ DeliveredInOrder'
  <2>1. \A i \in DOMAIN written : written[i] \in Int /\ written[i] > 0 /\ written[i] <= read
    BY <1>1 DEF StreamInv, StreamTypeOK, NoLastWordYet, DeliveredInOrder, Running
  <2>2. \A i \in DOMAIN written : written[i] < n /\ written[i] <= n
    BY <1>2, <2>1
  <2>3. NotYetWritten'
    BY <1>1, <2>2 DEF NotYetWritten
  <2>4. NoLastWordYet'
    BY <1>1 DEF StreamInv, NoLastWordYet, Running
  <2>5. DeliveredInOrder'
    BY <1>1, <2>2 DEF StreamInv, DeliveredInOrder
  <2>6. QED
    BY <2>3, <2>4, <2>5
<1>11. LastWordIsLast' /\ FirstChunkOnce'
  BY <1>1 DEF StreamInv, LastWordIsLast, FirstChunkOnce
<1>12. FirstChunkSeen'
  BY <1>1, <1>2 DEF StreamInv, FirstChunkSeen, IsData
<1>13. QED
  BY <1>6, <1>7, <1>8, <1>9, <1>10, <1>11, <1>12 DEF StreamInv

(* Steps that read and write nothing, and either leave the handler where   *)
(* it is, end it, or go from the callbacks to the pipe.                    *)
LEMMA QuietKeepsStream ==
  ASSUME StreamInv, StreamTypeOK',
         UNCHANGED <<lines, read, hasErrorPrefix, usage, chunk, written, firstChunks>>,
         \/ pc' = pc
         \/ pc' \in {"ended", "logged"}
         \/ pc = "callbacks" /\ pc' = "pipe"
         \/ pc = "callbacks" /\ pc' = "panicked" /\ chunk.kind = "nil"
  PROVE  StreamInv'
<1>1. ChunkFits'
  BY DEF StreamInv, ChunkFits
<1>2. NothingFatalRead'
  BY DEF StreamInv, NothingFatalRead
<1>3. AllWritten'
  BY DEF StreamInv, AllWritten, Deliverable, Running
<1>4. NotYetWritten' /\ NoLastWordYet' /\ FirstChunkSeen'
  BY DEF StreamInv, NotYetWritten, NoLastWordYet, FirstChunkSeen, IsData, Running, Handling
<1>5. DeliveredInOrder' /\ LastWordIsLast' /\ FirstChunkOnce'
  BY DEF StreamInv, DeliveredInOrder, LastWordIsLast, FirstChunkOnce
<1>6. QED
  BY <1>1, <1>2, <1>3, <1>4, <1>5 DEF StreamInv

(* NextChunk without a line.                                               *)
LEMMA NextChunkFailsKeepsStream ==
  ASSUME StreamInv, NextChunkFails
  PROVE  StreamInv'
<1>1. /\ pc = "read" /\ pc' = "callbacks" /\ upstream \in {"EOF", "broken"}
      /\ chunk' = Chunk("empty", upstream) /\ eof' = TRUE
      /\ UNCHANGED <<lines, upstream, client, read, hasErrorPrefix, usage, written,
                     reports, firstChunks, metaUsage, completed>>
  BY DEF NextChunkFails, StreamInv, StreamTypeOK
<1>2. /\ chunk' \in [kind : ChunkKinds, err : ChunkErrs]
      /\ chunk'.kind = "empty" /\ chunk' # Chunk("empty", "nil")
  BY <1>1 DEF Chunk, ChunkKinds, ChunkErrs
<1>3. StreamTypeOK'
  BY <1>1, <1>2 DEF StreamInv, StreamTypeOK, Running
<1>4. ChunkFits' /\ NothingFatalRead'
  BY <1>1, <1>2 DEF StreamInv, ChunkFits, NothingFatalRead
<1>5. AllWritten'
  BY <1>1 DEF StreamInv, AllWritten, Deliverable, Running
<1>6. NotYetWritten' /\ NoLastWordYet' /\ FirstChunkSeen'
  BY <1>1, <1>2 DEF StreamInv, NotYetWritten, NoLastWordYet, FirstChunkSeen, IsData, Running
<1>7. DeliveredInOrder' /\ LastWordIsLast' /\ FirstChunkOnce'
  BY <1>1 DEF StreamInv, DeliveredInOrder, LastWordIsLast, FirstChunkOnce
<1>8. QED
  BY <1>3, <1>4, <1>5, <1>6, <1>7 DEF StreamInv

(* A last event ends the handler: a "null", the body of a panic or [DONE]. *)
LEMMA LastEventKeepsStream ==
  ASSUME StreamInv, pc \in Handling, pc' = "ended", StreamTypeOK', NEW event \in Int,
         Marshalled(event),
         UNCHANGED <<lines, read, hasErrorPrefix, usage, chunk, firstChunks>>,
         event <= 0 \/ (event = read /\ chunk.kind = "done")
  PROVE  StreamInv'
<1>1. written \in Seq(Int) /\ read \in Nat
  BY DEF StreamInv, StreamTypeOK
<1>2. /\ ~Taken(event) => written' = written
      /\ Taken(event) =>
                   /\ DOMAIN written' = DOMAIN written \cup {Len(written) + 1}
                   /\ DOMAIN written = 1..Len(written) /\ Len(written) \in Nat
                   /\ Len(written') = Len(written) + 1
                   /\ \A i \in DOMAIN written : written'[i] = written[i]
                   /\ written'[Len(written) + 1] = event
  BY <1>1, WrittenGrows
<1>3. \A i \in DOMAIN written :
        written[i] \in Int /\ written[i] > 0 /\ lines[written[i]] # "done"
  BY <1>1 DEF StreamInv, NoLastWordYet, Running, Handling
<1>4. event > 0 => /\ event = read /\ lines[read] = "done"
                   /\ \A i \in DOMAIN written : written[i] < event
  <2> SUFFICES ASSUME event > 0 PROVE event = read /\ lines[read] = "done"
                                      /\ \A i \in DOMAIN written : written[i] < event
    OBVIOUS
  <2>1. event = read /\ chunk.kind = "done" /\ read \in 1..Len(lines)
    BY DEF StreamInv, StreamTypeOK
  <2>2. lines[read] \in AllLineKinds /\ chunk = ChunkOf(lines[read])
    BY <2>1 DEF StreamInv, ChunkFits, StreamTypeOK
  <2>3. lines[read] = "done"
    BY <2>1, <2>2, ChunkOfFacts
  <2>4. QED
    BY <2>1, <2>3 DEF StreamInv, NotYetWritten
<1>5. ChunkFits' /\ NothingFatalRead'
  BY DEF StreamInv, ChunkFits, NothingFatalRead
<1>6. AllWritten' /\ NotYetWritten' /\ NoLastWordYet' /\ FirstChunkSeen' /\ FirstChunkOnce'
  BY DEF StreamInv, AllWritten, NotYetWritten, NoLastWordYet, FirstChunkSeen, IsData,
         FirstChunkOnce, Running, Handling
<1>7. DeliveredInOrder'
  <2>1. CASE Taken(event)
    <3>1. \A i, j \in DOMAIN written' :
            i < j /\ written'[i] > 0 /\ written'[j] > 0 => written'[i] < written'[j]
      BY <1>2, <1>3, <1>4, <2>1 DEF StreamInv, DeliveredInOrder
    <3>2. \A i \in DOMAIN written' : written'[i] > 0 =>
            /\ written'[i] <= read
            /\ lines[written'[i]] \in {"data", "usage", "emptyUsage", "done"}
      BY <1>1, <1>2, <1>4, <2>1 DEF StreamInv, DeliveredInOrder
    <3>3. QED
      BY <3>1, <3>2 DEF DeliveredInOrder
  <2>2. CASE ~Taken(event)
    BY <1>2, <2>2 DEF StreamInv, DeliveredInOrder
  <2>3. QED
    BY <2>1, <2>2
<1>8. LastWordIsLast'
  <2>1. CASE Taken(event)
    BY <1>2, <1>3, <2>1 DEF LastWordIsLast
  <2>2. CASE ~Taken(event)
    BY <1>2, <2>2 DEF StreamInv, LastWordIsLast
  <2>3. QED
    BY <2>1, <2>2
<1>9. QED
  BY <1>5, <1>6, <1>7, <1>8 DEF StreamInv

(* A chunk of the stream.                                                  *)
LEMMA PipeChunkKeepsStream ==
  ASSUME StreamInv, PipeChunk
  PROVE  StreamInv'
<1>1. /\ pc = "pipe" /\ chunk.kind \in {"data", "usage"}
      /\ pc' \in {"read", "ended"}
      /\ firstChunks' = IF IsFirst THEN firstChunks + 1 ELSE firstChunks
      /\ metaUsage' = IF chunk.kind = "usage" /\ usage # NoUsage THEN usage ELSE metaUsage
      /\ Marshalled(read)
      /\ UNCHANGED <<lines, upstream, client, read, hasErrorPrefix, eof, usage, chunk,
                     reports, completed>>
  BY DEF PipeChunk, AfterWrite, MarshalTo, Marshalled, Taken
<1>2. written \in Seq(Int) /\ read \in 1..Len(lines) /\ Len(lines) \in Nat /\ read \in Int
  BY <1>1 DEF StreamInv, StreamTypeOK, ChunkFits
<1>3. /\ written' \in Seq(Int)
      /\ ~Taken(read) => written' = written /\ pc' = "ended"
      /\ Taken(read) =>
                   /\ DOMAIN written' = DOMAIN written \cup {Len(written) + 1}
                   /\ DOMAIN written = 1..Len(written) /\ Len(written) \in Nat
                   /\ Len(written') = Len(written) + 1
                   /\ \A i \in DOMAIN written : written'[i] = written[i]
                   /\ written'[Len(written) + 1] = read
  BY <1>1, <1>2, WrittenGrows
<1>4. /\ lines[read] \in {"data", "usage", "emptyUsage"}
      /\ \A j \in 1..(read - 1) : lines[j] \notin {"error", "badData", "badUsage", "done"}
  <2>1. lines[read] \in AllLineKinds /\ chunk = ChunkOf(lines[read])
        /\ \A j \in 1..(read - 1) : lines[j] \notin {"error", "badData", "badUsage", "done"}
    BY <1>1, <1>2 DEF StreamInv, ChunkFits, StreamTypeOK
  <2>2. QED
    BY <1>1, <2>1, ChunkOfFacts
<1>5. \A j \in 1..read : lines[j] \notin {"error", "badData", "badUsage", "done"}
  <2>1. \A j \in 1..read : j = read \/ j \in 1..(read - 1)
    BY <1>2
  <2>2. QED
    BY <1>4, <2>1
<1>6. \A i \in DOMAIN written :
        /\ written[i] \in Int /\ written[i] > 0 /\ written[i] < read
        /\ lines[written[i]] # "done"
  BY <1>1, <1>2 DEF StreamInv, NoLastWordYet, NotYetWritten, Running, Handling
<1>7. ~hasErrorPrefix
  BY <1>1 DEF StreamInv, ChunkFits
<1>8. firstChunks \in Nat /\ firstChunks' \in Nat
  BY <1>1 DEF StreamInv, StreamTypeOK
<1>9. StreamTypeOK'
  BY <1>1, <1>3, <1>8 DEF StreamInv, StreamTypeOK, Running
<1>10. ChunkFits' /\ NothingFatalRead'
  BY <1>1, <1>5, <1>7 DEF StreamInv, ChunkFits, NothingFatalRead
<1>11. AllWritten'
  <2> SUFFICES ASSUME Taken(read), NEW l \in Deliverable, ~(l > read)
               PROVE  \E i \in DOMAIN written' : written'[i] = l
    BY <1>1, <1>3 DEF AllWritten, Deliverable, Running
  <2>1. CASE l = read
    BY <1>3, <2>1
  <2>2. CASE l # read
    <3>1. \E i \in DOMAIN written : written[i] = l
      BY <1>1, <2>2 DEF StreamInv, AllWritten, Running
    <3>2. QED
      BY <1>3, <3>1
  <2>3. QED
    BY <2>1, <2>2
<1>12. NotYetWritten' /\ NoLastWordYet'
  <2>1. NotYetWritten'
    BY <1>1 DEF NotYetWritten, Handling
  <2>2. NoLastWordYet'
    BY <1>1, <1>2, <1>3, <1>4, <1>6 DEF NoLastWordYet, Running
  <2>3. QED
    BY <2>1, <2>2
<1>13. FirstChunkSeen' /\ FirstChunkOnce'
  <2> DEFINE D == {i \in 1..read : lines[i] \notin {"blank", "error"}}
  <2>1. read \in D /\ IsData(read)
    BY <1>2, <1>4 DEF IsData
  <2>2. IsFirst => firstChunks = 0
    <3> SUFFICES ASSUME IsFirst, firstChunks > 0 PROVE FALSE
      BY <1>8
    <3>1. PICK l \in 1..(read - 1) : IsData(l)
      BY <1>1 DEF StreamInv, FirstChunkSeen, Handling
    <3>2. l \in D /\ l # read
      BY <1>2, <3>1 DEF IsData
    <3>3. IsFiniteSet(D)
      <4>1. IsFiniteSet(1..read) /\ D \subseteq 1..read
        BY <1>2, FS_Interval
      <4> HIDE DEF D
      <4>2. QED
        BY <4>1, FS_Subset
    <3>4. Cardinality(D) = 1
      BY DEF IsFirst, DataLines
    <3> HIDE DEF D
    <3>5. \E x : D = {x}
      BY <3>3, <3>4, FS_Singleton
    <3>6. QED
      BY <2>1, <3>2, <3>5
  <2>3. firstChunks' <= 1
    BY <1>1, <1>8, <2>2 DEF StreamInv, FirstChunkOnce
  <2>4. \E l \in 1..read : IsData(l)
    BY <1>2, <2>1
  <2>5. QED
    BY <1>1, <2>3, <2>4 DEF FirstChunkSeen, FirstChunkOnce, Handling, IsData
<1>14. DeliveredInOrder'
  <2>1. CASE Taken(read)
    <3>1. \A i, j \in DOMAIN written' :
            i < j /\ written'[i] > 0 /\ written'[j] > 0 => written'[i] < written'[j]
      BY <1>2, <1>3, <1>6, <2>1 DEF StreamInv, DeliveredInOrder
    <3>2. \A i \in DOMAIN written' : written'[i] > 0 =>
            /\ written'[i] <= read
            /\ lines[written'[i]] \in {"data", "usage", "emptyUsage", "done"}
      BY <1>2, <1>3, <1>4, <2>1 DEF StreamInv, DeliveredInOrder
    <3>3. QED
      BY <1>1, <3>1, <3>2 DEF DeliveredInOrder
  <2>2. CASE ~Taken(read)
    BY <1>1, <1>3, <2>2 DEF StreamInv, DeliveredInOrder
  <2>3. QED
    BY <2>1, <2>2
<1>15. LastWordIsLast'
  <2>1. \A i \in DOMAIN written' : written'[i] > 0 /\ lines[written'[i]] # "done"
                                   /\ written'[i] \in Int
    BY <1>2, <1>3, <1>4, <1>6
  <2>2. QED
    BY <1>1, <2>1 DEF LastWordIsLast
<1>16. QED
  BY <1>9, <1>10, <1>11, <1>12, <1>13, <1>14, <1>15 DEF StreamInv

(* The invariant of what the client sees holds in every reachable state.   *)
THEOREM StreamInvariant == StreamSpec => []StreamInv
<1>1. StreamInit => StreamInv
  <2> SUFFICES ASSUME StreamInit PROVE StreamInv
    OBVIOUS
  <2>1. lines = <<>> /\ written = <<>> /\ reports = <<>> /\ read = 0 /\ firstChunks = 0
        /\ pc = "read" /\ hasErrorPrefix = FALSE /\ chunk = NoChunk
    BY DEF StreamInit
  <2>2. chunk \in [kind : ChunkKinds, err : ChunkErrs] /\ chunk.kind = "none"
    BY <2>1 DEF NoChunk, Chunk, ChunkKinds, ChunkErrs
  <2>3. DOMAIN lines = {} /\ DOMAIN written = {} /\ Len(lines) = 0 /\ 1..0 = {}
    BY <2>1
  <2>4. StreamTypeOK
    <3>1. lines \in Seq(AllLineKinds) /\ written \in Seq(Int) /\ reports \in Seq(Nat)
      BY <2>1
    <3>2. read \in 0..Len(lines) /\ Len(lines) <= MaxLines
      BY <2>1, <2>3, StreamAssumption
    <3>3. /\ client \in BOOLEAN /\ eof \in BOOLEAN
          /\ hasErrorPrefix \in BOOLEAN /\ completed \in BOOLEAN
      BY Zenon DEF StreamInit
    <3>4. usage \in Nat /\ metaUsage \in Nat /\ firstChunks \in Nat
      BY DEF StreamInit, NoUsage
    <3>5. upstream \in {"open", "EOF", "broken"} /\ pc \in Running \cup {"ended", "logged"}
      BY DEF StreamInit, Running
    <3>6. QED
      BY <2>2, <3>1, <3>2, <3>3, <3>4, <3>5 DEF StreamTypeOK
  <2>5. Deliverable = {}
    BY <2>3 DEF Deliverable
  <2>6. ChunkFits /\ NothingFatalRead /\ AllWritten
    BY <2>1, <2>2, <2>3, <2>5 DEF ChunkFits, NothingFatalRead, AllWritten
  <2>7. NotYetWritten /\ NoLastWordYet /\ FirstChunkSeen
    BY <2>1, <2>3 DEF NotYetWritten, NoLastWordYet, FirstChunkSeen
  <2>8. DeliveredInOrder /\ LastWordIsLast /\ FirstChunkOnce
    BY <2>1, <2>3 DEF DeliveredInOrder, LastWordIsLast, FirstChunkOnce
  <2>9. QED
    BY <2>4, <2>6, <2>7, <2>8 DEF StreamInv
<1>2. StreamInv /\ [StreamNext]_streamVars => StreamInv'
  <2> SUFFICES ASSUME StreamInv, [StreamNext]_streamVars PROVE StreamInv'
    OBVIOUS
  <2> USE DEF Running, Handling
  <2>0. StreamTypeOK
    BY DEF StreamInv
  <2>1. CASE UpstreamEnds
    <3>1. StreamTypeOK'
      BY <2>0, <2>1 DEF UpstreamEnds, StreamTypeOK
    <3>2. QED
      BY <2>1, <3>1, QuietKeepsStream DEF UpstreamEnds
  <2>2. CASE ClientLeaves
    <3>1. StreamTypeOK'
      BY <2>0, <2>2 DEF ClientLeaves, StreamTypeOK
    <3>2. QED
      BY <2>2, <3>1, QuietKeepsStream DEF ClientLeaves
  <2>3. CASE RunCallbacks
    <3>1. reports' \in Seq(Nat)
      <4>1. reports' = reports \/ reports' = Append(reports, usage)
        BY <2>3 DEF RunCallbacks
      <4>2. reports \in Seq(Nat) /\ usage \in Nat
        BY <2>0 DEF StreamTypeOK
      <4>3. QED
        BY <4>1, <4>2
    <3>2. StreamTypeOK'
      BY <2>0, <2>3, <3>1 DEF RunCallbacks, StreamTypeOK
    <3>3. QED
      BY <2>3, <3>2, QuietKeepsStream DEF RunCallbacks
  <2>4. CASE PipeLast
    <3> DEFINE event == IF chunk.kind = "done" THEN read ELSE 0
    <3>1. event \in Int /\ (event <= 0 \/ (event = read /\ chunk.kind = "done"))
      BY <2>0 DEF StreamTypeOK
    <3>2. Marshalled(event) /\ pc = "pipe" /\ pc' = "ended"
      BY <2>4 DEF PipeLast, AfterWrite, MarshalTo, Marshalled, Taken
    <3>3. UNCHANGED <<lines, upstream, client, read, hasErrorPrefix, eof, usage, chunk,
                      reports, firstChunks, metaUsage, completed>>
      BY <2>4 DEF PipeLast
    <3> HIDE DEF event
    <3>4. written' \in Seq(Int)
      BY <2>0, <3>1, <3>2, WrittenGrows DEF StreamTypeOK
    <3>5. StreamTypeOK'
      BY <2>0, <3>2, <3>3, <3>4 DEF StreamTypeOK
    <3>6. QED
      BY <3>1, <3>2, <3>3, <3>5, LastEventKeepsStream
  <2>5. CASE PipeError
    <3>1. StreamTypeOK'
      BY <2>0, <2>5 DEF PipeError, StreamTypeOK
    <3>2. QED
      BY <2>5, <3>1, QuietKeepsStream DEF PipeError
  <2>6. CASE PipeEmpty
    <3>1. StreamTypeOK'
      BY <2>0, <2>6 DEF PipeEmpty, StreamTypeOK
    <3>2. /\ pc = "pipe" /\ chunk = Chunk("empty", "nil") /\ chunk.kind = "empty" /\ pc' = "read"
          /\ UNCHANGED <<lines, read, hasErrorPrefix, usage, chunk, written, firstChunks>>
      BY <2>6 DEF PipeEmpty, Chunk
    <3>3. ChunkFits' /\ NothingFatalRead'
      BY <3>2 DEF StreamInv, ChunkFits, NothingFatalRead
    <3>4. AllWritten'
      BY <3>2 DEF StreamInv, AllWritten, Deliverable
    <3>5. NotYetWritten' /\ NoLastWordYet' /\ FirstChunkSeen'
      BY <3>2 DEF StreamInv, NotYetWritten, NoLastWordYet, FirstChunkSeen, IsData
    <3>6. DeliveredInOrder' /\ LastWordIsLast' /\ FirstChunkOnce'
      BY <3>2 DEF StreamInv, DeliveredInOrder, LastWordIsLast, FirstChunkOnce
    <3>7. QED
      BY <3>1, <3>3, <3>4, <3>5, <3>6 DEF StreamInv
  <2>7. CASE RecoverStream
    <3>1. /\ Marshalled(-1) /\ pc = "panicked" /\ pc' = "ended"
          /\ UNCHANGED <<lines, upstream, client, read, hasErrorPrefix, eof, usage, chunk,
                         reports, firstChunks, metaUsage, completed>>
      BY <2>7 DEF RecoverStream, MarshalTo, Marshalled, Taken
    <3>2. written' \in Seq(Int)
      BY <2>0, <3>1, WrittenGrows DEF StreamTypeOK
    <3>3. StreamTypeOK'
      BY <2>0, <3>1, <3>2 DEF StreamTypeOK
    <3>4. -1 \in Int /\ -1 <= 0
      OBVIOUS
    <3>5. QED
      BY <3>1, <3>3, <3>4, LastEventKeepsStream
  <2>8. CASE AccessLog
    <3>1. StreamTypeOK'
      BY <2>0, <2>8 DEF AccessLog, StreamTypeOK
    <3>2. QED
      BY <2>8, <3>1, QuietKeepsStream DEF AccessLog
  <2>9. CASE UpstreamResponseComplete
    <3>1. StreamTypeOK'
      BY <2>0, <2>9 DEF UpstreamResponseComplete, StreamTypeOK
    <3>2. QED
      BY <2>9, <3>1, QuietKeepsStream DEF UpstreamResponseComplete
  <2>10. CASE UNCHANGED streamVars
    <3>1. StreamTypeOK'
      BY <2>0, <2>10 DEF streamVars, StreamTypeOK
    <3>2. QED
      BY <2>10, <3>1, QuietKeepsStream DEF streamVars
  <2>11. QED
    BY <2>1, <2>2, <2>3, <2>4, <2>5, <2>6, <2>7, <2>8, <2>9, <2>10, SendsKeepsStream,
       NextChunkKeepsStream, NextChunkFailsKeepsStream, PipeChunkKeepsStream
    DEF StreamNext, Handler
<1>3. QED
  BY <1>1, <1>2, PTL DEF StreamSpec

(* Type correctness of the stream.                                         *)
THEOREM StreamTypeCorrect == StreamSpec => []StreamTypeOK
<1>1. StreamInv => StreamTypeOK
  BY DEF StreamInv
<1>2. QED
  BY <1>1, StreamInvariant, PTL

(* Whatever the upstream sends and whenever it or the client goes away,    *)
(* chunks reach the client in order and once, and nothing follows the end. *)
THEOREM StreamWellFormed == StreamSpec => []StreamIsWellFormed
<1>1. StreamInv => StreamIsWellFormed
  BY DEF StreamInv, StreamIsWellFormed
<1>2. QED
  BY <1>1, StreamInvariant, PTL

-----------------------------------------------------------------------------

(* A chunk comes from a line that does not end the stream.                 *)
LEMMA ChunkAtHand ==
  ASSUME StreamInv, chunk.kind \in {"data", "usage"}
  PROVE  /\ read \in 1..Len(lines) /\ chunk.err = "nil" /\ ~hasErrorPrefix
         /\ lines[read] \in {"data", "usage", "emptyUsage"}
         /\ lines[read] \in {"usage", "emptyUsage"} <=> chunk.kind = "usage"
         /\ chunk.kind = "usage" =>
              usage = IF lines[read] = "usage" THEN read ELSE NoUsage
<1>1. /\ read \in 1..Len(lines) /\ lines[read] \in AllLineKinds /\ chunk = ChunkOf(lines[read])
      /\ ~hasErrorPrefix
      /\ chunk.kind = "usage" => usage = IF lines[read] = "usage" THEN read ELSE NoUsage
  BY DEF StreamInv, StreamTypeOK, ChunkFits
<1>2. lines[read] \in {"data", "usage", "emptyUsage"}
      /\ (lines[read] \in {"usage", "emptyUsage"} <=> chunk.kind = "usage")
  BY <1>1, ChunkOfFacts
<1>3. chunk.err = "nil"
  BY <1>1, <1>2, ChunkOfFacts DEF Ends
<1>4. QED
  BY <1>1, <1>2, <1>3

(* As long as nothing is read and the lines stay, the usages read stay.    *)
LEMMA SameUsages ==
  ASSUME UNCHANGED <<lines, read>>
  PROVE  /\ UsagesRead' = UsagesRead
         /\ \A u : IsLastUsage(u)' <=> IsLastUsage(u)
BY DEF UsagesRead, IsLastUsage

(* The handler goes on without a usage at hand.                            *)
LEMMA StepKeepsUsage ==
  ASSUME StreamInv, UsageInv,
         UNCHANGED <<lines, read, hasErrorPrefix, eof, usage, chunk, metaUsage>>,
         \/ pc' = pc /\ loggedUsage' = loggedUsage
         \/ pc = "callbacks" /\ pc' \in {"pipe", "panicked"}
            /\ (pc' = "panicked" => chunk.kind = "nil")
         \/ /\ pc \in {"pipe", "panicked"} /\ chunk.kind # "usage"
            /\ pc' = "ended" \/ (pc' = "read" /\ chunk.err = "nil")
         \/ pc = "ended" /\ pc' = "logged" /\ loggedUsage' = metaUsage
  PROVE  UsageInv'
<1>1. UsagesRead' = UsagesRead
  BY SameUsages
<1>2. UsageIsLast'
  BY <1>1 DEF UsageInv, UsageIsLast, IsLastUsage
<1>3. LogFollows'
  <2>1. ~UsageAtHand' => ~UsageAtHand
    BY DEF UsageAtHand
  <2>2. QED
    BY <1>1, <2>1 DEF UsageInv, LogFollows, IsLastUsage
<1>4. EndIsFinal'
  BY DEF UsageInv, EndIsFinal
<1>5. LogShowsUsage'
  <2>1. CASE pc' = pc /\ loggedUsage' = loggedUsage
    BY <1>1, <2>1 DEF UsageInv, LogShowsUsage
  <2>2. CASE pc = "ended" /\ pc' = "logged" /\ loggedUsage' = metaUsage
    <3>1. IsLastUsage(metaUsage)
      BY <2>2 DEF UsageInv, LogFollows, UsageAtHand
    <3>2. QED
      BY <1>1, <2>2, <3>1 DEF LogShowsUsage, IsLastUsage
  <2>3. CASE pc' \in {"pipe", "panicked", "ended", "read"}
    BY <2>3 DEF LogShowsUsage
  <2>4. QED
    BY <2>1, <2>2, <2>3
<1>6. QED
  BY <1>2, <1>3, <1>4, <1>5 DEF UsageInv

(* The upstream's next line is not read yet.                               *)
LEMMA SendsKeepsUsage ==
  ASSUME StreamInv, UsageInv, UpstreamSends
  PROVE  UsageInv'
<1>1. UNCHANGED <<read, hasErrorPrefix, eof, usage, chunk, pc, metaUsage, loggedUsage>>
  BY DEF UpstreamSends
<1>2. \A l \in 1..Len(lines) : lines'[l] = lines[l]
  BY LinesGrow DEF StreamInv
<1>3. Len(lines) \in Nat /\ read \in 0..Len(lines)
  BY DEF StreamInv, StreamTypeOK
<1>4. \A l \in 1..read : lines'[l] = lines[l] /\ 1..l \subseteq 1..read
  BY <1>2, <1>3
<1>5. UsagesRead' = UsagesRead
  BY <1>1, <1>4 DEF UsagesRead
<1>6. UsageIsLast' /\ LogFollows'
  BY <1>1, <1>5 DEF UsageInv, UsageIsLast, LogFollows, IsLastUsage, UsageAtHand
<1>7. EndIsFinal' /\ LogShowsUsage'
  BY <1>1, <1>5 DEF UsageInv, EndIsFinal, LogShowsUsage
<1>8. QED
  BY <1>6, <1>7 DEF UsageInv

(* NextChunk puts at most one usage at hand, later than all others read.   *)
LEMMA NextChunkKeepsUsage ==
  ASSUME StreamInv, UsageInv, NextChunk
  PROVE  UsageInv'
<1> DEFINE n == read + 1
           kind == lines[n]
<1>1. /\ pc = "read" /\ pc' = "callbacks" /\ read' = n
      /\ UNCHANGED <<lines, metaUsage>>
  BY DEF NextChunk, NextLine
<1>2. /\ n \in 1..Len(lines) /\ read \in Nat /\ n \in Nat /\ n > 0
      /\ 1..n = (1..read) \cup {n}
  BY NextChunkFacts DEF StreamInv, StreamTypeOK
<1>3. /\ hasErrorPrefix' <=> hasErrorPrefix \/ kind = "error"
      /\ hasErrorPrefix' => chunk'.kind = "empty"
      /\ ~hasErrorPrefix' => chunk' = ChunkOf(kind)
      /\ chunk'.kind = "usage" => usage' = IF kind = "usage" THEN n ELSE NoUsage
      /\ chunk'.kind # "usage" => usage' = usage
      /\ eof' => eof \/ hasErrorPrefix' \/ chunk'.err # "nil"
      /\ kind \in AllLineKinds
  BY NextChunkFacts DEF StreamInv, Chunk
<1> HIDE DEF kind, n
<1>4. /\ hasErrorPrefix => \E e \in 1..read : lines[e] = "error"
      /\ ~hasErrorPrefix => \A j \in 1..read : lines[j] # "error"
  BY <1>1 DEF StreamInv, NothingFatalRead
<1>5. \A i \in 1..read : 1..i \subseteq 1..read /\ i < n /\ i \in Int
  BY <1>2 DEF n
<1>6. /\ UsagesRead \subseteq 1..read
      /\ UsagesRead' = UsagesRead \cup
           (IF kind = "usage" /\ ~hasErrorPrefix' THEN {n} ELSE {})
  <2>1. UsagesRead \subseteq 1..read
    BY DEF UsagesRead
  <2>2. \A i \in 1..read : i \in UsagesRead' <=> i \in UsagesRead
    BY <1>1, <1>2 DEF UsagesRead
  <2>3. n \in UsagesRead' <=> kind = "usage" /\ ~hasErrorPrefix'
    <3>1. n \in UsagesRead' <=> kind = "usage" /\ \A j \in 1..n : lines[j] # "error"
      BY <1>1, <1>2 DEF UsagesRead, kind
    <3>2. (\A j \in 1..n : lines[j] # "error") <=> ~hasErrorPrefix'
      BY <1>2, <1>3, <1>4 DEF kind
    <3>3. QED
      BY <3>1, <3>2
  <2>4. UsagesRead' \subseteq 1..n
    BY <1>1 DEF UsagesRead
  <2>5. n \notin UsagesRead
    BY <1>2, <2>1 DEF n
  <2>6. QED
    BY <1>2, <2>1, <2>2, <2>3, <2>4, <2>5
<1>7. IsLastUsage(metaUsage)
  BY <1>1 DEF UsageInv, LogFollows, UsageAtHand
<1>8. EndIsFinal' /\ LogShowsUsage'
  BY <1>1, <1>3 DEF UsageInv, EndIsFinal, LogShowsUsage
<1>9. CASE kind = "usage" /\ ~hasErrorPrefix'
  <2>1. chunk'.kind = "usage" /\ usage' = n /\ usage' # NoUsage
    BY <1>2, <1>3, <1>9, ChunkOfFacts DEF NoUsage
  <2>2. n \in UsagesRead' /\ \A i \in UsagesRead' : i <= n
    BY <1>2, <1>5, <1>6, <1>9
  <2>3. UsageIsLast' /\ LogFollows'
    BY <1>1, <2>1, <2>2 DEF UsageIsLast, LogFollows, IsLastUsage, UsageAtHand
  <2>4. QED
    BY <1>8, <2>3 DEF UsageInv
<1>10. CASE ~(kind = "usage" /\ ~hasErrorPrefix')
  <2>1. UsagesRead' = UsagesRead
    BY <1>6, <1>10
  <2>2. usage' = usage \/ usage' = NoUsage
    BY <1>3, <1>10
  <2>3. UsageIsLast' /\ LogFollows'
    BY <1>1, <1>7, <2>1, <2>2 DEF UsageInv, UsageIsLast, LogFollows, IsLastUsage
  <2>4. QED
    BY <1>8, <2>3 DEF UsageInv
<1>11. QED
  BY <1>9, <1>10

(* The pipe notes the usage at hand for the log.                           *)
LEMMA PipeChunkKeepsUsage ==
  ASSUME StreamInv, UsageInv, PipeChunk
  PROVE  UsageInv'
<1>1. /\ pc = "pipe" /\ chunk.kind \in {"data", "usage"} /\ pc' \in {"read", "ended"}
      /\ metaUsage' = IF chunk.kind = "usage" /\ usage # NoUsage THEN usage ELSE metaUsage
      /\ UNCHANGED <<lines, read, hasErrorPrefix, eof, usage, chunk>>
  BY DEF PipeChunk, AfterWrite, MarshalTo
<1>2. chunk.err = "nil" /\ ~hasErrorPrefix
  BY <1>1, ChunkAtHand
<1>3. UsagesRead' = UsagesRead
  BY <1>1, SameUsages
<1>4. IsLastUsage(metaUsage')
  BY <1>1 DEF UsageInv, UsageIsLast, LogFollows, UsageAtHand
<1>5. UsageIsLast' /\ LogFollows'
  BY <1>1, <1>3, <1>4 DEF UsageInv, UsageIsLast, LogFollows, IsLastUsage
<1>6. EndIsFinal' /\ LogShowsUsage'
  BY <1>1, <1>2 DEF UsageInv, EndIsFinal, LogShowsUsage
<1>7. QED
  BY <1>5, <1>6 DEF UsageInv

(* The invariant of the usage holds in every reachable state.              *)
THEOREM UsageInvariant == StreamSpec => []UsageInv
<1>1. StreamInit => UsageInv
  <2> SUFFICES ASSUME StreamInit PROVE UsageInv
    OBVIOUS
  <2>1. read = 0 /\ pc = "read" /\ usage = NoUsage /\ metaUsage = NoUsage /\ eof = FALSE
    BY DEF StreamInit
  <2>2. UsagesRead = {}
    BY <2>1 DEF UsagesRead
  <2>3. QED
    BY <2>1, <2>2 DEF UsageInv, UsageIsLast, LogFollows, IsLastUsage, EndIsFinal, LogShowsUsage
<1>2. StreamInv /\ UsageInv /\ [StreamNext]_streamVars => UsageInv'
  <2> SUFFICES ASSUME StreamInv, UsageInv, [StreamNext]_streamVars PROVE UsageInv'
    OBVIOUS
  <2>1. CASE UpstreamEnds \/ ClientLeaves
    BY <2>1, StepKeepsUsage DEF UpstreamEnds, ClientLeaves
  <2>2. CASE NextChunkFails
    <3>1. /\ pc = "read" /\ pc' = "callbacks" /\ chunk'.kind = "empty" /\ chunk'.err # "nil"
          /\ UNCHANGED <<lines, read, hasErrorPrefix, usage, metaUsage>>
      BY <2>2 DEF NextChunkFails, Chunk, StreamInv, StreamTypeOK
    <3>2. UsagesRead' = UsagesRead
      BY <3>1, SameUsages
    <3>3. UsageIsLast' /\ LogFollows'
      BY <3>1, <3>2 DEF UsageInv, UsageIsLast, LogFollows, IsLastUsage, UsageAtHand
    <3>4. EndIsFinal' /\ LogShowsUsage'
      BY <3>1 DEF EndIsFinal, LogShowsUsage
    <3>5. QED
      BY <3>3, <3>4 DEF UsageInv
  <2>3. CASE RunCallbacks
    <3>1. /\ pc = "callbacks" /\ pc' = IF chunk.kind = "nil" THEN "panicked" ELSE "pipe"
          /\ UNCHANGED <<lines, read, hasErrorPrefix, eof, usage, chunk, metaUsage>>
      BY <2>3 DEF RunCallbacks
    <3>2. QED
      BY <3>1, StepKeepsUsage
  <2>4. CASE PipeLast \/ PipeError \/ PipeEmpty
    <3>1. /\ pc = "pipe" /\ (pc' = "ended" \/ (pc' = "read" /\ chunk.err = "nil"))
          /\ chunk.kind = "empty" \/ chunk.err # "nil"
          /\ UNCHANGED <<lines, read, hasErrorPrefix, eof, usage, chunk, metaUsage>>
      BY <2>4 DEF PipeLast, PipeError, PipeEmpty, Chunk, AfterWrite, MarshalTo
    <3>2. chunk.kind # "usage"
      BY <3>1, ChunkAtHand
    <3>3. QED
      BY <3>1, <3>2, StepKeepsUsage
  <2>5. CASE RecoverStream
    <3>1. /\ pc = "panicked" /\ pc' = "ended"
          /\ UNCHANGED <<lines, read, hasErrorPrefix, eof, usage, chunk, metaUsage>>
      BY <2>5 DEF RecoverStream, MarshalTo
    <3>2. chunk.kind # "usage"
      BY <3>1 DEF StreamInv, ChunkFits
    <3>3. QED
      BY <3>1, <3>2, StepKeepsUsage
  <2>6. CASE AccessLog
    BY <2>6, StepKeepsUsage DEF AccessLog
  <2>7. CASE UpstreamResponseComplete
    <3>1. /\ eof /\ metaUsage' = IF usage # NoUsage THEN usage ELSE metaUsage
          /\ UNCHANGED <<lines, read, hasErrorPrefix, eof, usage, chunk, pc, loggedUsage>>
      BY <2>7 DEF UpstreamResponseComplete
    <3>2. chunk.kind # "usage"
      BY <3>1, ChunkAtHand DEF UsageInv, EndIsFinal
    <3>3. UsagesRead' = UsagesRead
      BY <3>1, SameUsages
    <3>4. IsLastUsage(metaUsage')
      BY <3>1, <3>2 DEF UsageInv, UsageIsLast, LogFollows, UsageAtHand
    <3>5. UsageIsLast' /\ LogFollows'
      BY <3>1, <3>3, <3>4 DEF UsageInv, UsageIsLast, LogFollows, IsLastUsage
    <3>6. EndIsFinal' /\ LogShowsUsage'
      BY <3>1, <3>3 DEF UsageInv, EndIsFinal, LogShowsUsage
    <3>7. QED
      BY <3>5, <3>6 DEF UsageInv
  <2>8. CASE UNCHANGED streamVars
    BY <2>8, StepKeepsUsage DEF streamVars
  <2>9. QED
    BY <2>1, <2>2, <2>3, <2>4, <2>5, <2>6, <2>7, <2>8, SendsKeepsUsage,
       NextChunkKeepsUsage, PipeChunkKeepsUsage
    DEF StreamNext, Handler
<1>3. QED
  BY <1>1, <1>2, StreamInvariant, PTL DEF StreamSpec

(* The access log shows the last usage that was read, whichever goroutine  *)
(* set it last and however the stream ended.                               *)
THEOREM StreamUsageIsLogged == StreamSpec => []LogShowsUsage
<1>1. UsageInv => LogShowsUsage
  BY DEF UsageInv
<1>2. QED
  BY <1>1, UsageInvariant, PTL

-----------------------------------------------------------------------------

(* As long as the handler runs, all that was written are chunks.           *)
LEMMA RunningDelivered ==
  ASSUME StreamInv, pc \in Running
  PROVE  Delivered = written
<1>1. written \in Seq(Int) /\ \A i \in DOMAIN written : written[i] > 0
  BY DEF StreamInv, StreamTypeOK, NoLastWordYet
<1>2. written # <<>> => Last(written) > 0 /\ Last(written) \in Int
  <2> SUFFICES ASSUME written # <<>> PROVE Last(written) > 0 /\ Last(written) \in Int
    OBVIOUS
  <2>1. Len(written) \in DOMAIN written
    BY <1>1
  <2>2. QED
    BY <1>1, <2>1 DEF Last
<1>3. QED
  BY <1>2 DEF Delivered

(* Writing a "null" or the body of a panic delivers nothing.               *)
LEMMA LastWordDeliversNothing ==
  ASSUME StreamInv, pc \in Running, NEW event \in Int, event <= 0, Marshalled(event)
  PROVE  Delivered' = Delivered
<1>1. written \in Seq(Int) /\ Delivered = written
  BY RunningDelivered DEF StreamInv, StreamTypeOK
<1>2. CASE Taken(event)
  <2>1. written' = Append(written, event)
    BY <1>2 DEF Taken
  <2>2. written' # <<>> /\ Last(written') = event
    BY <1>1, <2>1 DEF Last
  <2>3. Front(written') = written
    BY <1>1, <2>1 DEF Front
  <2>4. QED
    BY <1>1, <2>2, <2>3 DEF Delivered
<1>3. CASE ~Taken(event)
  BY <1>3 DEF Marshalled, Taken, Delivered
<1>4. QED
  BY <1>2, <1>3

(* Writing the line at hand delivers it.                                   *)
LEMMA ChunkIsDelivered ==
  ASSUME StreamInv, pc \in Running, read \in Int, read > 0, Marshalled(read)
  PROVE  Delivered' = IF Taken(read) THEN Append(Delivered, read) ELSE Delivered
<1>1. written \in Seq(Int) /\ Delivered = written
  BY RunningDelivered DEF StreamInv, StreamTypeOK
<1>2. CASE Taken(read)
  <2>1. written' = Append(written, read)
    BY <1>2 DEF Taken
  <2>2. written' # <<>> /\ Last(written') = read
    BY <1>1, <2>1 DEF Last
  <2>3. QED
    BY <1>1, <1>2, <2>1, <2>2 DEF Delivered
<1>3. CASE ~Taken(read)
  BY <1>3 DEF Marshalled, Taken, Delivered
<1>4. QED
  BY <1>2, <1>3

(* The line at hand is the first that is for the client and was not yet    *)
(* delivered.                                                              *)
LEMMA AtHandIsNext ==
  ASSUME StreamInv, pc \in Handling, chunk.kind \in {"data", "usage", "done"}
  PROVE  /\ read \in Deliverable /\ read \in Int /\ read > 0
         /\ \A i \in DOMAIN Delivered : Delivered[i] # read
         /\ \A q \in Deliverable : (\A i \in DOMAIN Delivered : Delivered[i] # q) => read <= q
<1>1. Delivered = written
  BY RunningDelivered DEF Handling, Running
<1>2. /\ read \in 1..Len(lines) /\ read \in Int /\ read > 0 /\ lines[read] \in AllLineKinds
      /\ DOMAIN lines = 1..Len(lines) /\ chunk = ChunkOf(lines[read])
      /\ \A j \in 1..(read - 1) : lines[j] \notin {"error", "badData", "badUsage", "done"}
      /\ Len(lines) \in Nat
  BY DEF StreamInv, StreamTypeOK, ChunkFits
<1>3. lines[read] \in {"data", "usage", "emptyUsage", "done"}
  BY <1>2, ChunkOfFacts
<1>4. read \in Deliverable
  <2>1. \A j \in 1..read : j = read \/ j \in 1..(read - 1)
    BY <1>2
  <2>2. QED
    BY <1>2, <1>3, <2>1 DEF Deliverable
<1>5. \A i \in DOMAIN written : written[i] < read /\ written[i] \in Int
  BY DEF StreamInv, NotYetWritten, StreamTypeOK
<1>6. \A i \in DOMAIN written : written[i] # read
  BY <1>2, <1>5
<1>7. \A q \in Deliverable : q \in Int
  BY <1>2 DEF Deliverable
<1>8. \A q \in Deliverable : (\A i \in DOMAIN written : written[i] # q) => read <= q
  BY <1>2, <1>7 DEF StreamInv, AllWritten, Handling, Running
<1>9. QED
  BY <1>1, <1>2, <1>4, <1>6, <1>8

(* A chunk that is written is a Deliver step of the relay, and one that    *)
(* cannot be written a Finish step.                                        *)
LEMMA WriteIsRelayStep ==
  ASSUME StreamInv, pc \in Handling, chunk.kind \in {"data", "usage", "done"},
         Marshalled(read), UNCHANGED lines, pc' \in {"read", "ended"}
  PROVE  Relayed!RelayNext
<1>1. /\ read \in Deliverable /\ read \in Int /\ read > 0
      /\ \A i \in DOMAIN Delivered : Delivered[i] # read
      /\ \A q \in Deliverable : (\A i \in DOMAIN Delivered : Delivered[i] # q) => read <= q
  BY AtHandIsNext
<1>2. Delivered' = IF Taken(read) THEN Append(Delivered, read) ELSE Delivered
  BY <1>1, ChunkIsDelivered DEF Handling, Running
<1>3. Deliverable' = Deliverable
  BY DEF Deliverable
<1>4. ~(pc \in {"ended", "logged"})
  BY DEF Handling
<1>5. CASE Taken(read)
  <2>1. read \in Deliverable \ Relayed!Range(Delivered)
        /\ \A q \in Deliverable \ Relayed!Range(Delivered) : read <= q
    BY <1>1 DEF Relayed!Range
  <2>2. Relayed!Deliver
    BY <1>2, <1>3, <1>4, <1>5, <2>1 DEF Relayed!Deliver
  <2>3. QED
    BY <2>2 DEF Relayed!RelayNext
<1>6. CASE ~Taken(read)
  BY <1>2, <1>3, <1>6 DEF Marshalled, Relayed!RelayNext, Relayed!Finish
<1>7. QED
  BY <1>5, <1>6

(* The stream implements the relay: no chunk is lost between two that are  *)
(* delivered, none is invented, and none comes after the end.              *)
THEOREM StreamImplementsRelay == StreamSpec => ImplementsRelay
<1>1. StreamInit => Relayed!RelayInit
  <2> SUFFICES ASSUME StreamInit PROVE Relayed!RelayInit
    OBVIOUS
  <2>1. lines = <<>> /\ written = <<>> /\ pc = "read"
    BY DEF StreamInit
  <2>2. DOMAIN lines = {}
    BY <2>1
  <2>3. Deliverable = {} /\ Delivered = <<>>
    BY <2>1, <2>2 DEF Deliverable, Delivered
  <2>4. QED
    BY <2>1, <2>3 DEF Relayed!RelayInit
<1>2. StreamInv /\ [StreamNext]_streamVars => [Relayed!RelayNext]_(Relayed!relayVars)
  <2> SUFFICES ASSUME StreamInv, [StreamNext]_streamVars
               PROVE  [Relayed!RelayNext]_(Relayed!relayVars)
    OBVIOUS
  <2> DEFINE over == pc \in {"ended", "logged"}
  <2>1. ASSUME UNCHANGED <<lines, written>>, pc' = pc
        PROVE  UNCHANGED Relayed!relayVars
    BY <2>1 DEF Relayed!relayVars, Deliverable, Delivered
  <2>2. ASSUME UNCHANGED <<lines, written>>, pc \in Running, pc' \in Running
        PROVE  UNCHANGED Relayed!relayVars
    BY <2>2 DEF Relayed!relayVars, Deliverable, Delivered, Running
  <2>3. ASSUME UNCHANGED <<lines, written>>, pc' \in {"ended", "logged"}
        PROVE  Relayed!RelayNext
    BY <2>3 DEF Relayed!RelayNext, Relayed!Finish, Deliverable, Delivered
  <2>4. CASE UpstreamSends
    <3>1. /\ Len(lines') <= MaxLines /\ Len(lines') = Len(lines) + 1
          /\ \A l \in Deliverable' : l \in Deliverable \/ l = Len(lines) + 1
          /\ Deliverable \subseteq Deliverable'
      BY <2>4, LinesGrow DEF StreamInv
    <3>2. Len(lines) \in Nat /\ Deliverable \subseteq 1..Len(lines)
      BY DEF StreamInv, StreamTypeOK, Deliverable
    <3>3. UNCHANGED <<Delivered, over>>
      BY <2>4 DEF UpstreamSends, Delivered
    <3>4. CASE Len(lines) + 1 \in Deliverable'
      <4> DEFINE p == Len(lines) + 1
      <4>1. p \in 1..MaxLines /\ \A q \in Deliverable : q < p
        BY <3>1, <3>2, StreamAssumption
      <4>2. Deliverable' = Deliverable \cup {p}
        BY <3>1, <3>4
      <4>3. QED
        BY <3>3, <4>1, <4>2 DEF Relayed!RelayNext, Relayed!Send
    <3>5. CASE Len(lines) + 1 \notin Deliverable'
      <4>1. Deliverable' = Deliverable
        BY <3>1, <3>5
      <4>2. QED
        BY <3>3, <4>1 DEF Relayed!relayVars
    <3>6. QED
      BY <3>4, <3>5
  <2>5. CASE UpstreamEnds \/ ClientLeaves \/ UpstreamResponseComplete \/ UNCHANGED streamVars
    BY <2>1, <2>5 DEF UpstreamEnds, ClientLeaves, UpstreamResponseComplete, streamVars
  <2>6. CASE NextChunk \/ NextChunkFails \/ RunCallbacks \/ PipeEmpty
    BY <2>2, <2>6 DEF NextChunk, NextChunkFails, RunCallbacks, PipeEmpty, Running
  <2>7. CASE PipeError \/ AccessLog
    BY <2>3, <2>7 DEF PipeError, AccessLog
  <2>8. CASE PipeChunk
    <3>1. /\ pc = "pipe" /\ chunk.kind \in {"data", "usage"} /\ UNCHANGED lines
          /\ pc' \in {"read", "ended"} /\ Marshalled(read)
      BY <2>8 DEF PipeChunk, AfterWrite, MarshalTo, Marshalled, Taken
    <3>2. QED
      BY <3>1, WriteIsRelayStep DEF Handling
  <2>9. CASE PipeLast
    <3>1. pc = "pipe" /\ pc' = "ended" /\ UNCHANGED lines
          /\ Marshalled(IF chunk.kind = "done" THEN read ELSE 0)
      BY <2>9 DEF PipeLast, AfterWrite, MarshalTo, Marshalled, Taken
    <3>2. CASE chunk.kind = "done"
      BY <3>1, <3>2, WriteIsRelayStep DEF Handling
    <3>3. CASE chunk.kind # "done"
      <4>1. Delivered' = Delivered
        BY <3>1, <3>3, LastWordDeliversNothing DEF Running
      <4>2. QED
        BY <3>1, <4>1 DEF Relayed!RelayNext, Relayed!Finish, Deliverable
    <3>4. QED
      BY <3>2, <3>3
  <2>10. CASE RecoverStream
    <3>1. pc = "panicked" /\ pc' = "ended" /\ UNCHANGED lines /\ Marshalled(-1)
      BY <2>10 DEF RecoverStream, MarshalTo, Marshalled, Taken
    <3>2. -1 \in Int /\ -1 <= 0
      OBVIOUS
    <3>3. Delivered' = Delivered
      BY <3>1, <3>2, LastWordDeliversNothing DEF Running
    <3>4. QED
      BY <3>1, <3>3 DEF Relayed!RelayNext, Relayed!Finish, Deliverable
  <2>11. QED
    BY <2>4, <2>5, <2>6, <2>7, <2>8, <2>9, <2>10 DEF StreamNext, Handler
<1>3. QED
  BY <1>1, <1>2, StreamInvariant, PTL DEF StreamSpec, ImplementsRelay, Relayed!RelaySpec

=============================================================================
