----------------------------- MODULE SpeechProofs -----------------------------
(***************************************************************************)
(* Proofs about Speech, for any calls, answers and number of frames: the   *)
(* conversation with the CosyVoice server keeps to its protocol, and the   *)
(* audio it ends with is complete.                                         *)
(***************************************************************************)
EXTENDS Speech, FiniteSetTheorems, SequenceTheorems, TLAPS

Messages == {"task-started", "frame", "result-generated", "task-finished",
             "task-failed", "garbage"}
Alive    == {"read", "text", "finish", "failed", "result"}
Readers  == Alive \cup {"none", "error", "close", "ended"}
Mains    == {"build", "upstream", "dial", "run", "select", "parked", "leaving",
             "returned"}

Asked0 == <<>>
Asked1 == <<"run-task">>
Asked2 == <<"run-task", "continue-task">>
Asked3 == <<"run-task", "continue-task", "finish-task">>

(* Type correctness of the call and the conversation.                      *)
SpeechTypeOK ==
  /\ call \in Calls /\ main \in Mains
  /\ conn \in {"none", "open", "broken", "closed"}
  /\ toServer \in {Asked0, Asked1, Asked2, Asked3}
  /\ toClient \in Seq(Messages)
  /\ server \in {"idle", "started", "finished", "failed"}
  /\ frames \in Nat /\ buffer \in Nat /\ reader \in Readers
  /\ chanError \in Seq({OpenAIInternalError, OpenAIBadRequest})
  /\ chanResult \in Seq({"done"})
  /\ closed \in SUBSET {"chanError", "chanResult"}

(* Where the caller is, and what that says of the conversation.            *)
Stages ==
  /\ main = "upstream" => call.provider # "cosyvoice"
  /\ main \in {"dial", "run", "select", "parked", "leaving"} => call.provider = "cosyvoice"
  /\ main \in {"build", "upstream", "dial"} => reader = "none"
  /\ reader = "none" => /\ main \in {"build", "upstream", "dial", "returned"}
                        /\ toServer = Asked0 /\ server = "idle"
  /\ main = "run" => toServer = Asked0
  /\ main \notin {"leaving", "returned"} => answer = NoAnswer

(* The server is asked in order because it answers in order.               *)
Conversation ==
  /\ server = "idle" => /\ toClient = <<>> /\ frames = 0 /\ buffer = 0
                        /\ toServer \in {Asked0, Asked1}
                        /\ reader \in {"none", "read", "error", "close", "ended"}
                        /\ conn = "open" => reader \in {"none", "read"}
  /\ server # "idle" => toServer # Asked0
  /\ server = "finished" => toServer = Asked3
  /\ \A i \in DOMAIN toClient :
       toClient[i] = "task-started" => i = 1 /\ reader = "read" /\ toServer = Asked1
  /\ reader = "text" => toServer = Asked1
  /\ reader = "finish" => conn # "open" \/ toServer = Asked2
  /\ toServer \in {Asked2, Asked3} => wire = call.input

FramesIn(q) == Cardinality({i \in DOMAIN q : q[i] = "frame"})

(* No frame is lost as long as the reader lives, and task-finished comes   *)
(* last.                                                                   *)
FramesFlow ==
  /\ reader \in Alive => buffer + FramesIn(toClient) = frames
  /\ \A i \in DOMAIN toClient :
       toClient[i] = "task-finished" => i = Len(toClient) /\ server = "finished"
  /\ reader = "result" => server = "finished" /\ toClient = <<>>
  /\ chanResult # <<>> => server = "finished" /\ toClient = <<>> /\ buffer = frames

(* A reader that ends has left an error, or a caller that goes.            *)
ErrorBeforeEnd ==
  /\ reader \in {"close", "ended"} => chanError # <<>> \/ main \in {"leaving", "returned"}
  /\ closed # {} => reader \in {"close", "ended"}
  /\ "chanResult" \in closed => reader = "ended"

(* The inductive invariant of a call.                                      *)
SpeechInv ==
  /\ SpeechTypeOK /\ Stages /\ Conversation /\ FramesFlow /\ ErrorBeforeEnd
  /\ CompleteAudio

-----------------------------------------------------------------------------

(* The places of the frames in a queue of messages.                        *)
LEMMA FramesFinite ==
  ASSUME NEW q \in Seq(Messages)
  PROVE  /\ IsFiniteSet({i \in DOMAIN q : q[i] = "frame"})
         /\ FramesIn(q) \in Nat
<1> DEFINE F == {i \in DOMAIN q : q[i] = "frame"}
<1>1. F \subseteq 1..Len(q) /\ IsFiniteSet(1..Len(q))
  BY FS_Interval
<1> HIDE DEF F
<1>2. IsFiniteSet(F) /\ Cardinality(F) \in Nat
  BY <1>1, FS_Subset, FS_CardinalityType
<1>3. QED
  BY <1>2 DEF F, FramesIn

(* An empty queue holds no frame.                                          *)
LEMMA FramesEmpty == FramesIn(<<>>) = 0
<1> DEFINE q == <<>>
           F == {i \in DOMAIN q : q[i] = "frame"}
<1>1. F = {}
  OBVIOUS
<1>2. QED
  BY <1>1, FS_EmptySet DEF FramesIn

(* A message more is a frame more, if it is one.                           *)
LEMMA FramesAppend ==
  ASSUME NEW q \in Seq(Messages), NEW m \in Messages
  PROVE  FramesIn(Append(q, m)) = FramesIn(q) + (IF m = "frame" THEN 1 ELSE 0)
<1> DEFINE F == {i \in DOMAIN q : q[i] = "frame"}
           G == {i \in DOMAIN Append(q, m) : Append(q, m)[i] = "frame"}
           n == Len(q) + 1
<1>1. IsFiniteSet(F) /\ FramesIn(q) = Cardinality(F) /\ FramesIn(q) \in Nat
  BY FramesFinite DEF FramesIn
<1>2. /\ DOMAIN Append(q, m) = DOMAIN q \cup {n} /\ n \notin DOMAIN q
      /\ Append(q, m)[n] = m /\ \A i \in DOMAIN q : Append(q, m)[i] = q[i]
  OBVIOUS
<1>3. G = IF m = "frame" THEN F \cup {n} ELSE F
  BY <1>2
<1>4. FramesIn(Append(q, m)) = Cardinality(G) /\ n \notin F
  BY <1>2 DEF FramesIn
<1> HIDE DEF F, G, n
<1>5. Cardinality(F \cup {n}) = Cardinality(F) + 1
  BY <1>1, <1>4, FS_AddElement
<1>6. QED
  BY <1>1, <1>3, <1>4, <1>5

(* Taking the first message takes its frame, if it is one.                 *)
LEMMA FramesTail ==
  ASSUME NEW q \in Seq(Messages), q # <<>>
  PROVE  FramesIn(q) = FramesIn(Tail(q)) + (IF Head(q) = "frame" THEN 1 ELSE 0)
<1> DEFINE t == Tail(q)
           F == {i \in DOMAIN q : q[i] = "frame"}
           T == {i \in DOMAIN t : t[i] = "frame"}
           f == [i \in T |-> i + 1]
<1>1. /\ t \in Seq(Messages) /\ Len(t) = Len(q) - 1 /\ Len(q) \in Nat /\ Len(q) > 0
      /\ \A i \in 1..Len(t) : t[i] = q[i + 1]
      /\ Head(q) = q[1]
  BY HeadTailProperties
<1>2. DOMAIN q = 1..Len(q) /\ DOMAIN t = 1..Len(t)
  BY <1>1
<1>3. IsFiniteSet(F) /\ FramesIn(q) = Cardinality(F) /\ FramesIn(q) \in Nat
  BY FramesFinite DEF FramesIn
<1>4. IsFiniteSet(T) /\ FramesIn(t) = Cardinality(T) /\ FramesIn(t) \in Nat
  <2> HIDE DEF t
  <2>1. QED
    BY <1>1, FramesFinite DEF FramesIn
<1>5. ExistsBijection(T, F \ {1})
  <2> HIDE DEF t
  <2>1. f \in [T -> F \ {1}]
    BY <1>1, <1>2
  <2>2. \A a, b \in T : f[a] = f[b] => a = b
    BY <1>1, <1>2
  <2>3. \A y \in F \ {1} : \E x \in T : f[x] = y
    <3> SUFFICES ASSUME NEW y \in F \ {1} PROVE \E x \in T : f[x] = y
      OBVIOUS
    <3>1. y - 1 \in T /\ f[y - 1] = y
      BY <1>1, <1>2
    <3>2. QED
      BY <3>1
  <2> HIDE DEF f, T, F
  <2>4. f \in Bijection(T, F \ {1})
    BY <2>1, <2>2, <2>3 DEF Bijection, Injection, Surjection, IsInjective
  <2>5. QED
    BY <2>4 DEF ExistsBijection
<1>6. 1 \in F <=> Head(q) = "frame"
  BY <1>1, <1>2
<1> HIDE DEF F, T, t
<1>7. Cardinality(F \ {1}) = Cardinality(T)
  BY <1>4, <1>5, FS_Bijection
<1>8. Cardinality(F \ {1}) = IF 1 \in F THEN Cardinality(F) - 1 ELSE Cardinality(F)
  BY <1>3, FS_RemoveElement
<1>9. FramesIn(q) = FramesIn(t) + (IF Head(q) = "frame" THEN 1 ELSE 0)
  BY <1>3, <1>4, <1>6, <1>7, <1>8
<1>10. QED
  BY <1>9 DEF t

-----------------------------------------------------------------------------

(* What the server has been asked tells the stages of a task apart.        *)
LEMMA AskedFacts ==
  /\ Asked0 # Asked1 /\ Asked0 # Asked2 /\ Asked0 # Asked3
  /\ Asked1 # Asked2 /\ Asked1 # Asked3 /\ Asked2 # Asked3
  /\ Asked0 = <<>>
  /\ Append(Asked0, "run-task") = Asked1
  /\ Append(Asked1, "continue-task") = Asked2
  /\ Append(Asked2, "finish-task") = Asked3
<1> DEFINE Requests == {"run-task", "continue-task", "finish-task"}
<1>1. Len(Asked0) = 0 /\ Len(Asked1) = 1 /\ Len(Asked2) = 2 /\ Len(Asked3) = 3
  BY DEF Asked0, Asked1, Asked2, Asked3
<1>2. Append(Asked0, "run-task") = Asked1
  BY DEF Asked0, Asked1
<1>3. Append(Asked1, "continue-task") = Asked2
  <2> DEFINE s == Append(Asked1, "continue-task")
  <2>1. /\ s \in Seq(Requests) /\ Len(s) = 2 /\ s[1] = "run-task" /\ s[2] = "continue-task"
        /\ Asked2 \in Seq(Requests) /\ Len(Asked2) = 2
        /\ Asked2[1] = "run-task" /\ Asked2[2] = "continue-task"
    <3>1. Asked1 \in Seq(Requests) /\ Len(Asked1) = 1 /\ Asked1[1] = "run-task"
      BY DEF Asked1
    <3>2. /\ Asked2 \in Seq(Requests) /\ Len(Asked2) = 2
          /\ Asked2[1] = "run-task" /\ Asked2[2] = "continue-task"
      BY DEF Asked2
    <3>3. "continue-task" \in Requests
      OBVIOUS
    <3> HIDE DEF Requests
    <3>4. /\ s \in Seq(Requests) /\ Len(s) = Len(Asked1) + 1
          /\ \A i \in 1..Len(Asked1) : s[i] = Asked1[i]
          /\ s[Len(Asked1) + 1] = "continue-task"
      <4>1. Asked1 \in Seq(Requests)
        BY <3>1
      <4>2. QED
        BY <4>1, <3>3, AppendProperties
    <3> HIDE DEF s
    <3>5. QED
      BY <3>1, <3>2, <3>4
  <2> HIDE DEF s
  <2>2. s = Asked2
    BY <2>1, SeqEqual
  <2>3. QED
    BY <2>2 DEF s
<1>4. Append(Asked2, "finish-task") = Asked3
  <2> DEFINE s == Append(Asked2, "finish-task")
  <2>1. /\ s \in Seq(Requests) /\ Len(s) = 3 /\ s[1] = "run-task"
        /\ s[2] = "continue-task" /\ s[3] = "finish-task"
        /\ Asked3 \in Seq(Requests) /\ Len(Asked3) = 3 /\ Asked3[1] = "run-task"
        /\ Asked3[2] = "continue-task" /\ Asked3[3] = "finish-task"
    <3>1. /\ Asked2 \in Seq(Requests) /\ Len(Asked2) = 2
          /\ Asked2[1] = "run-task" /\ Asked2[2] = "continue-task"
      BY DEF Asked2
    <3>2. /\ Asked3 \in Seq(Requests) /\ Len(Asked3) = 3 /\ Asked3[1] = "run-task"
          /\ Asked3[2] = "continue-task" /\ Asked3[3] = "finish-task"
      BY DEF Asked3
    <3>3. "finish-task" \in Requests
      OBVIOUS
    <3> HIDE DEF Requests
    <3>4. /\ s \in Seq(Requests) /\ Len(s) = Len(Asked2) + 1
          /\ \A i \in 1..Len(Asked2) : s[i] = Asked2[i]
          /\ s[Len(Asked2) + 1] = "finish-task"
      BY <3>1, <3>3, AppendProperties
    <3> HIDE DEF s
    <3>5. QED
      BY <3>1, <3>2, <3>4
  <2> HIDE DEF s
  <2>2. s = Asked3
    BY <2>1, SeqEqual
  <2>3. QED
    BY <2>2 DEF s
<1>5. Asked0 = <<>>
  BY DEF Asked0
<1>6. QED
  BY <1>1, <1>2, <1>3, <1>4, <1>5

(* What the server has been asked is a beginning of the protocol.          *)
LEMMA AskedPrefixes ==
  /\ Asked0 = SubSeq(Asked3, 1, 0) /\ Asked1 = SubSeq(Asked3, 1, 1)
  /\ Asked2 = SubSeq(Asked3, 1, 2) /\ Asked3 = SubSeq(Asked3, 1, 3)
BY DEF Asked0, Asked1, Asked2, Asked3

(* What the server may do, by what it has been asked.                      *)
LEMMA SentFacts ==
  /\ Sent("run-task") => toServer # Asked0
  /\ toServer \in {Asked0, Asked1, Asked2, Asked3} =>
       /\ Sent("continue-task") => toServer \in {Asked2, Asked3}
       /\ Sent("finish-task") => toServer = Asked3
BY DEF Sent, Asked0, Asked1, Asked2, Asked3

(* What a caller may be told is no audio.                                  *)
LEMMA ErrorFacts ==
  /\ NoAnswer.kind = "none" /\ Panicked.kind = "panic"
  /\ \A e : Refused(e).kind = "error"
  /\ \A t : Audio(t).kind = "audio" /\ Audio(t).text = t
BY DEF NoAnswer, Panicked, Refused, Audio

(* The call starts well.                                                   *)
LEMMA SpeechStarts == SpeechInit => SpeechInv
<1> SUFFICES ASSUME SpeechInit PROVE SpeechInv
  OBVIOUS
<1>1. SpeechTypeOK
  BY AskedFacts DEF SpeechInit, SpeechTypeOK, Mains, Readers
<1>2. Stages
  BY AskedFacts DEF SpeechInit, Stages
<1>3. Conversation
  BY AskedFacts DEF SpeechInit, Conversation
<1>4. FramesFlow
  BY FramesEmpty DEF SpeechInit, FramesFlow, Alive
<1>5. ErrorBeforeEnd
  BY DEF SpeechInit, ErrorBeforeEnd
<1>6. CompleteAudio
  BY ErrorFacts DEF SpeechInit, CompleteAudio
<1>7. QED
  BY <1>1, <1>2, <1>3, <1>4, <1>5, <1>6 DEF SpeechInv

(* The gateway builds no request for CosyVoice.                            *)
LEMMA NotForCosyVoice ==
  ASSUME NEW c, c.provider = "cosyvoice"
  PROVE  BuildSpeechRequest(c).outcome = "error"
BY DEF BuildSpeechRequest, NotBuilt

(* Building the request starts no conversation.                            *)
LEMMA BuildKeeps == SpeechInv /\ Build => SpeechInv'
<1> SUFFICES ASSUME SpeechInv, Build PROVE SpeechInv'
  OBVIOUS
<1>1. SpeechTypeOK'
  BY AskedFacts, ErrorFacts DEF SpeechInv, SpeechTypeOK, Stages, Mains, Build, ReturnAnswer, httpVars, wireVars, taskVars, readVars
<1>2. Stages'
  <2>1. main' = "upstream" => BuildSpeechRequest(call).outcome = "ok"
    BY DEF Build, ReturnAnswer
  <2>2. main' = "upstream" => call.provider # "cosyvoice"
    BY <2>1, NotForCosyVoice
  <2>3. QED
    BY <2>2, AskedFacts, ErrorFacts DEF SpeechInv, SpeechTypeOK, Stages, Mains, Build,
       ReturnAnswer, httpVars, wireVars, taskVars, readVars
<1>3. Conversation'
  BY AskedFacts, ErrorFacts DEF SpeechInv, SpeechTypeOK, Stages, Conversation, Build, ReturnAnswer, httpVars, wireVars, taskVars, readVars
<1>4. FramesFlow'
  BY AskedFacts, ErrorFacts DEF SpeechInv, SpeechTypeOK, Stages, Conversation, FramesFlow, Alive, Readers, Build, ReturnAnswer, httpVars, wireVars, taskVars, readVars
<1>5. ErrorBeforeEnd'
  BY AskedFacts, ErrorFacts DEF SpeechInv, SpeechTypeOK, Stages, ErrorBeforeEnd, Build, ReturnAnswer, httpVars, wireVars, taskVars, readVars
<1>6. CompleteAudio'
  BY AskedFacts, ErrorFacts DEF SpeechInv, SpeechTypeOK, Stages, Conversation, FramesFlow, CompleteAudio, Build, ReturnAnswer, httpVars, wireVars, taskVars, readVars
<1>7. QED
  BY <1>1, <1>2, <1>3, <1>4, <1>5, <1>6 DEF SpeechInv

(* Nor does reading its answer.                                            *)
LEMMA AnswerKeeps == SpeechInv /\ Answer => SpeechInv'
<1> SUFFICES ASSUME SpeechInv, Answer PROVE SpeechInv'
  OBVIOUS
<1>1. SpeechTypeOK'
  BY AskedFacts, ErrorFacts DEF SpeechInv, SpeechTypeOK, Stages, Mains, Answer, ReturnAnswer, httpVars, wireVars, taskVars, readVars
<1>2. Stages'
  BY AskedFacts, ErrorFacts DEF SpeechInv, SpeechTypeOK, Stages, Mains, Answer, ReturnAnswer, httpVars, wireVars, taskVars, readVars
<1>3. Conversation'
  BY AskedFacts, ErrorFacts DEF SpeechInv, SpeechTypeOK, Stages, Conversation, Answer, ReturnAnswer, httpVars, wireVars, taskVars, readVars
<1>4. FramesFlow'
  BY AskedFacts, ErrorFacts DEF SpeechInv, SpeechTypeOK, Stages, Conversation, FramesFlow, Alive, Readers, Answer, ReturnAnswer, httpVars, wireVars, taskVars, readVars
<1>5. ErrorBeforeEnd'
  BY AskedFacts, ErrorFacts DEF SpeechInv, SpeechTypeOK, Stages, ErrorBeforeEnd, Answer, ReturnAnswer, httpVars, wireVars, taskVars, readVars
<1>6. CompleteAudio'
  BY AskedFacts, ErrorFacts DEF SpeechInv, SpeechTypeOK, Stages, Conversation, FramesFlow, CompleteAudio, Answer, ReturnAnswer, httpVars, wireVars, taskVars, readVars
<1>7. QED
  BY <1>1, <1>2, <1>3, <1>4, <1>5, <1>6 DEF SpeechInv

(* Dialling starts the reader on a fresh connection.                       *)
LEMMA DialKeeps == SpeechInv /\ Dial => SpeechInv'
<1> SUFFICES ASSUME SpeechInv, Dial PROVE SpeechInv'
  OBVIOUS
<1>1. SpeechTypeOK'
  BY AskedFacts, ErrorFacts DEF SpeechInv, SpeechTypeOK, Stages, Mains, Dial, ReturnAnswer, Refused, Alive, Readers, httpVars, wireVars, taskVars, readVars
<1>2. Stages'
  BY AskedFacts, ErrorFacts DEF SpeechInv, SpeechTypeOK, Stages, Mains, Dial, ReturnAnswer, Refused, Alive, Readers, httpVars, wireVars, taskVars, readVars
<1>3. Conversation'
  BY AskedFacts, ErrorFacts DEF SpeechInv, SpeechTypeOK, Stages, Conversation, Dial, ReturnAnswer, Refused, Alive, Readers, httpVars, wireVars, taskVars, readVars
<1>4. FramesFlow'
  <2>1. toClient = <<>> /\ frames = 0 /\ buffer = 0
    BY DEF SpeechInv, Stages, Conversation, Dial
  <2>2. QED
    BY <2>1, FramesEmpty DEF SpeechInv, FramesFlow, Alive, Dial, taskVars
<1>5. ErrorBeforeEnd'
  BY AskedFacts, ErrorFacts DEF SpeechInv, SpeechTypeOK, Stages, ErrorBeforeEnd, Dial, ReturnAnswer, Refused, Alive, Readers, httpVars, wireVars, taskVars, readVars
<1>6. CompleteAudio'
  BY AskedFacts, ErrorFacts DEF SpeechInv, SpeechTypeOK, Stages, Conversation, FramesFlow, CompleteAudio, Dial, ReturnAnswer, Refused, Alive, Readers, httpVars, wireVars, taskVars, readVars
<1>7. QED
  BY <1>1, <1>2, <1>3, <1>4, <1>5, <1>6 DEF SpeechInv

(* The task is asked for first.                                            *)
LEMMA RunTaskKeeps == SpeechInv /\ RunTask => SpeechInv'
<1> SUFFICES ASSUME SpeechInv, RunTask PROVE SpeechInv'
  OBVIOUS
<1>1. SpeechTypeOK'
  BY AskedFacts, ErrorFacts DEF SpeechInv, SpeechTypeOK, Stages, Mains, RunTask, LeaveWith, ReturnAnswer, Write, WriteFails, Panicked, Refused, httpVars, wireVars, taskVars, readVars
<1>2. Stages'
  BY AskedFacts, ErrorFacts DEF SpeechInv, SpeechTypeOK, Stages, Mains, RunTask, LeaveWith, ReturnAnswer, Write, WriteFails, Panicked, Refused, httpVars, wireVars, taskVars, readVars
<1>3. Conversation'
  BY AskedFacts, ErrorFacts DEF SpeechInv, SpeechTypeOK, Stages, Conversation, RunTask, LeaveWith, ReturnAnswer, Write, WriteFails, Panicked, Refused, httpVars, wireVars, taskVars, readVars
<1>4. FramesFlow'
  BY AskedFacts, ErrorFacts DEF SpeechInv, SpeechTypeOK, Stages, Conversation, FramesFlow, Alive, Readers, RunTask, LeaveWith, ReturnAnswer, Write, WriteFails, Panicked, Refused, httpVars, wireVars, taskVars, readVars
<1>5. ErrorBeforeEnd'
  BY AskedFacts, ErrorFacts DEF SpeechInv, SpeechTypeOK, Stages, ErrorBeforeEnd, RunTask, LeaveWith, ReturnAnswer, Write, WriteFails, Panicked, Refused, httpVars, wireVars, taskVars, readVars
<1>6. CompleteAudio'
  BY AskedFacts, ErrorFacts DEF SpeechInv, SpeechTypeOK, Stages, Conversation, FramesFlow, CompleteAudio, RunTask, LeaveWith, ReturnAnswer, Write, WriteFails, Panicked, Refused, httpVars, wireVars, taskVars, readVars
<1>7. QED
  BY <1>1, <1>2, <1>3, <1>4, <1>5, <1>6 DEF SpeechInv

(* An error is no audio.                                                   *)
LEMMA TakeErrorKeeps == SpeechInv /\ TakeError => SpeechInv'
<1> SUFFICES ASSUME SpeechInv, TakeError PROVE SpeechInv'
  OBVIOUS
<1>1. SpeechTypeOK'
  <2>1. chanError' \in Seq({OpenAIInternalError, OpenAIBadRequest})
    BY HeadTailProperties DEF SpeechInv, SpeechTypeOK, TakeError
  <2>2. QED
    BY <2>1 DEF SpeechInv, SpeechTypeOK, Mains, TakeError, LeaveWith, ReturnAnswer,
      httpVars, taskVars
<1>2. Stages'
  BY AskedFacts, ErrorFacts DEF SpeechInv, SpeechTypeOK, Stages, Mains, TakeError, LeaveWith, ReturnAnswer, Refused, ErrorReady, NoAnswer, httpVars, wireVars, taskVars, readVars
<1>3. Conversation'
  BY AskedFacts, ErrorFacts DEF SpeechInv, SpeechTypeOK, Stages, Conversation, TakeError, LeaveWith, ReturnAnswer, Refused, ErrorReady, NoAnswer, httpVars, wireVars, taskVars, readVars
<1>4. FramesFlow'
  BY AskedFacts, ErrorFacts DEF SpeechInv, SpeechTypeOK, Stages, Conversation, FramesFlow, Alive, Readers, TakeError, LeaveWith, ReturnAnswer, Refused, ErrorReady, NoAnswer, httpVars, wireVars, taskVars, readVars
<1>5. ErrorBeforeEnd'
  BY AskedFacts, ErrorFacts DEF SpeechInv, SpeechTypeOK, Stages, ErrorBeforeEnd, TakeError, LeaveWith, ReturnAnswer, Refused, ErrorReady, NoAnswer, httpVars, wireVars, taskVars, readVars
<1>6. CompleteAudio'
  BY AskedFacts, ErrorFacts DEF SpeechInv, SpeechTypeOK, Stages, Conversation, FramesFlow, CompleteAudio, TakeError, LeaveWith, ReturnAnswer, Refused, ErrorReady, NoAnswer, httpVars, wireVars, taskVars, readVars
<1>7. QED
  BY <1>1, <1>2, <1>3, <1>4, <1>5, <1>6 DEF SpeechInv

(* A result is all of the audio, or the reader has ended.                  *)
LEMMA TakeResultKeeps == SpeechInv /\ TakeResult => SpeechInv'
<1> SUFFICES ASSUME SpeechInv, TakeResult PROVE SpeechInv'
  OBVIOUS
<1>1. SpeechTypeOK'
  BY AskedFacts, ErrorFacts DEF SpeechInv, SpeechTypeOK, Stages, Mains, TakeResult, LeaveWith, ReturnAnswer, Audio, Heard, ResultReady, httpVars, wireVars, taskVars, readVars
<1>2. Stages'
  BY AskedFacts, ErrorFacts DEF SpeechInv, SpeechTypeOK, Stages, Mains, TakeResult, LeaveWith, ReturnAnswer, Audio, Heard, ResultReady, httpVars, wireVars, taskVars, readVars
<1>3. Conversation'
  BY AskedFacts, ErrorFacts DEF SpeechInv, SpeechTypeOK, Stages, Conversation, TakeResult, LeaveWith, ReturnAnswer, Audio, Heard, ResultReady, httpVars, wireVars, taskVars, readVars
<1>4. FramesFlow'
  BY AskedFacts, ErrorFacts DEF SpeechInv, SpeechTypeOK, Stages, Conversation, FramesFlow, Alive, Readers, TakeResult, LeaveWith, ReturnAnswer, Audio, Heard, ResultReady, httpVars, wireVars, taskVars, readVars
<1>5. ErrorBeforeEnd'
  BY AskedFacts, ErrorFacts DEF SpeechInv, SpeechTypeOK, Stages, ErrorBeforeEnd, TakeResult, LeaveWith, ReturnAnswer, Audio, Heard, ResultReady, httpVars, wireVars, taskVars, readVars
<1>6. CompleteAudio'
  <2>1. answer' = Audio(Heard(buffer)) /\ server' = server /\ reader' = reader
        /\ call' = call
    BY DEF TakeResult, LeaveWith, ReturnAnswer, taskVars, httpVars
  <2>2. answer'.text = Heard(buffer)
    BY <2>1 DEF Audio
  <2>3. chanResult # <<>> \/ reader = "ended"
    BY DEF SpeechInv, ErrorBeforeEnd, TakeResult, ResultReady
  <2>4. server = "finished" => wire = call.input
    BY DEF SpeechInv, Conversation
  <2>5. chanResult # <<>> => server = "finished" /\ buffer = frames
    BY DEF SpeechInv, FramesFlow
  <2>6. QED
    BY <2>1, <2>2, <2>3, <2>4, <2>5 DEF CompleteAudio, Heard
<1>7. QED
  BY <1>1, <1>2, <1>3, <1>4, <1>5, <1>6 DEF SpeechInv

(* The caller parks only while the reader lives.                           *)
LEMMA ParkKeeps == SpeechInv /\ Park => SpeechInv'
<1> SUFFICES ASSUME SpeechInv, Park PROVE SpeechInv'
  OBVIOUS
<1>1. SpeechTypeOK'
  BY AskedFacts, ErrorFacts DEF SpeechInv, SpeechTypeOK, Stages, Mains, Park, ErrorReady, ResultReady, httpVars, wireVars, taskVars, readVars
<1>2. Stages'
  BY AskedFacts, ErrorFacts DEF SpeechInv, SpeechTypeOK, Stages, Mains, Park, ErrorReady, ResultReady, httpVars, wireVars, taskVars, readVars
<1>3. Conversation'
  BY AskedFacts, ErrorFacts DEF SpeechInv, SpeechTypeOK, Stages, Conversation, Park, ErrorReady, ResultReady, httpVars, wireVars, taskVars, readVars
<1>4. FramesFlow'
  BY AskedFacts, ErrorFacts DEF SpeechInv, SpeechTypeOK, Stages, Conversation, FramesFlow, Alive, Readers, Park, ErrorReady, ResultReady, httpVars, wireVars, taskVars, readVars
<1>5. ErrorBeforeEnd'
  BY AskedFacts, ErrorFacts DEF SpeechInv, SpeechTypeOK, Stages, ErrorBeforeEnd, Park, ErrorReady, ResultReady, httpVars, wireVars, taskVars, readVars
<1>6. CompleteAudio'
  BY AskedFacts, ErrorFacts DEF SpeechInv, SpeechTypeOK, Stages, Conversation, FramesFlow, CompleteAudio, Park, ErrorReady, ResultReady, httpVars, wireVars, taskVars, readVars
<1>7. QED
  BY <1>1, <1>2, <1>3, <1>4, <1>5, <1>6 DEF SpeechInv

(* A caller that leaves keeps its answer.                                  *)
LEMMA LeaveKeeps == SpeechInv /\ Leave => SpeechInv'
<1> SUFFICES ASSUME SpeechInv, Leave PROVE SpeechInv'
  OBVIOUS
<1>1. SpeechTypeOK'
  BY AskedFacts, ErrorFacts DEF SpeechInv, SpeechTypeOK, Stages, Mains, Leave, LeaveWith, ReturnAnswer, httpVars, wireVars, taskVars, readVars
<1>2. Stages'
  BY AskedFacts, ErrorFacts DEF SpeechInv, SpeechTypeOK, Stages, Mains, Leave, LeaveWith, ReturnAnswer, httpVars, wireVars, taskVars, readVars
<1>3. Conversation'
  BY AskedFacts, ErrorFacts DEF SpeechInv, SpeechTypeOK, Stages, Conversation, Leave, LeaveWith, ReturnAnswer, httpVars, wireVars, taskVars, readVars
<1>4. FramesFlow'
  BY AskedFacts, ErrorFacts DEF SpeechInv, SpeechTypeOK, Stages, Conversation, FramesFlow, Alive, Readers, Leave, LeaveWith, ReturnAnswer, httpVars, wireVars, taskVars, readVars
<1>5. ErrorBeforeEnd'
  BY AskedFacts, ErrorFacts DEF SpeechInv, SpeechTypeOK, Stages, ErrorBeforeEnd, Leave, LeaveWith, ReturnAnswer, httpVars, wireVars, taskVars, readVars
<1>6. CompleteAudio'
  BY AskedFacts, ErrorFacts DEF SpeechInv, SpeechTypeOK, Stages, Conversation, FramesFlow, CompleteAudio, Leave, LeaveWith, ReturnAnswer, httpVars, wireVars, taskVars, readVars
<1>7. QED
  BY <1>1, <1>2, <1>3, <1>4, <1>5, <1>6 DEF SpeechInv

(* The reader takes messages in their order.                               *)
LEMMA ReadMessageKeeps == SpeechInv /\ ReadMessage => SpeechInv'
<1> SUFFICES ASSUME SpeechInv, ReadMessage PROVE SpeechInv'
  OBVIOUS
<1>1. SpeechTypeOK'
  BY AskedFacts, ErrorFacts DEF SpeechInv, SpeechTypeOK, Stages, Mains, ReadMessage, OnMessage, Alive, Readers, Messages, httpVars, wireVars, taskVars, readVars
<1>2. Stages'
  BY AskedFacts, ErrorFacts DEF SpeechInv, SpeechTypeOK, Stages, Mains, ReadMessage, OnMessage, Alive, Readers, Messages, httpVars, wireVars, taskVars, readVars
<1>3. Conversation'
  BY AskedFacts, ErrorFacts DEF SpeechInv, SpeechTypeOK, Stages, Conversation, ReadMessage, OnMessage, Alive, Readers, Messages, httpVars, wireVars, taskVars, readVars
<1>4. FramesFlow'
  <2> DEFINE q == toClient
             t == Tail(toClient)
  <2>1. /\ t \in Seq(Messages) /\ Len(t) = Len(q) - 1 /\ Len(q) \in Nat /\ Len(q) > 0
        /\ \A i \in 1..Len(t) : t[i] = q[i + 1]
        /\ Head(q) = q[1] /\ DOMAIN q = 1..Len(q) /\ DOMAIN t = 1..Len(t)
        /\ (Len(t) = 0 => t = <<>>)
    BY HeadTailProperties, EmptySeq DEF SpeechInv, SpeechTypeOK, ReadMessage
  <2>2. /\ FramesIn(q) = FramesIn(t) + (IF Head(q) = "frame" THEN 1 ELSE 0)
        /\ FramesIn(q) \in Nat /\ FramesIn(t) \in Nat
    BY <2>1, FramesTail, FramesFinite DEF SpeechInv, SpeechTypeOK, ReadMessage
  <2>3. /\ q # <<>> /\ toClient' = t /\ reader = "read" /\ frames' = frames /\ server' = server
        /\ buffer' = (IF Head(q) = "frame" THEN buffer + 1 ELSE buffer)
        /\ reader' = OnMessage(Head(q)) /\ chanResult' = chanResult
    BY DEF ReadMessage, taskVars
  <2>4. /\ buffer \in Nat /\ frames \in Nat /\ buffer + FramesIn(q) = frames
        /\ chanResult = <<>>
        /\ \A i \in DOMAIN q : q[i] = "task-finished" => i = Len(q) /\ server = "finished"
    BY <2>3 DEF SpeechInv, SpeechTypeOK, FramesFlow, Alive
  <2> HIDE DEF q, t
  <2>5. buffer' + FramesIn(t) = frames
    BY <2>2, <2>3, <2>4
  <2>6. \A i \in DOMAIN t : t[i] = "task-finished" => i = Len(t) /\ server = "finished"
    BY <2>1, <2>4
  <2>7. reader' = "result" => server = "finished" /\ t = <<>>
    BY <2>1, <2>3, <2>4 DEF OnMessage
  <2>8. QED
    BY <2>3, <2>4, <2>5, <2>6, <2>7 DEF FramesFlow
<1>5. ErrorBeforeEnd'
  BY AskedFacts, ErrorFacts DEF SpeechInv, SpeechTypeOK, Stages, ErrorBeforeEnd, ReadMessage, OnMessage, Alive, Readers, Messages, httpVars, wireVars, taskVars, readVars
<1>6. CompleteAudio'
  BY AskedFacts, ErrorFacts DEF SpeechInv, SpeechTypeOK, Stages, Conversation, FramesFlow, CompleteAudio, ReadMessage, OnMessage, Alive, Readers, Messages, httpVars, wireVars, taskVars, readVars
<1>7. QED
  BY <1>1, <1>2, <1>3, <1>4, <1>5, <1>6 DEF SpeechInv

(* A reader that fails hears no more.                                      *)
LEMMA ReadFailsKeeps == SpeechInv /\ ReadFails => SpeechInv'
<1> SUFFICES ASSUME SpeechInv, ReadFails PROVE SpeechInv'
  OBVIOUS
<1>1. SpeechTypeOK'
  BY AskedFacts, ErrorFacts DEF SpeechInv, SpeechTypeOK, Stages, Mains, ReadFails, Alive, Readers, httpVars, wireVars, taskVars, readVars
<1>2. Stages'
  BY AskedFacts, ErrorFacts DEF SpeechInv, SpeechTypeOK, Stages, Mains, ReadFails, Alive, Readers, httpVars, wireVars, taskVars, readVars
<1>3. Conversation'
  BY AskedFacts, ErrorFacts DEF SpeechInv, SpeechTypeOK, Stages, Conversation, ReadFails, Alive, Readers, httpVars, wireVars, taskVars, readVars
<1>4. FramesFlow'
  BY AskedFacts, ErrorFacts DEF SpeechInv, SpeechTypeOK, Stages, Conversation, FramesFlow, Alive, Readers, ReadFails, Alive, Readers, httpVars, wireVars, taskVars, readVars
<1>5. ErrorBeforeEnd'
  BY AskedFacts, ErrorFacts DEF SpeechInv, SpeechTypeOK, Stages, ErrorBeforeEnd, ReadFails, Alive, Readers, httpVars, wireVars, taskVars, readVars
<1>6. CompleteAudio'
  BY AskedFacts, ErrorFacts DEF SpeechInv, SpeechTypeOK, Stages, Conversation, FramesFlow, CompleteAudio, ReadFails, Alive, Readers, httpVars, wireVars, taskVars, readVars
<1>7. QED
  BY <1>1, <1>2, <1>3, <1>4, <1>5, <1>6 DEF SpeechInv

(* The reader sends the text, then the end of the task.                    *)
LEMMA WriteTextKeeps == SpeechInv /\ WriteText => SpeechInv'
<1> SUFFICES ASSUME SpeechInv, WriteText PROVE SpeechInv'
  OBVIOUS
<1>1. SpeechTypeOK'
  <2>1. reader = "finish" /\ conn = "open" => toServer = Asked2
    BY DEF SpeechInv, Conversation
  <2>2. reader = "text" => toServer = Asked1
    BY DEF SpeechInv, Conversation
  <2>3. toServer' \in {Asked0, Asked1, Asked2, Asked3}
    BY <2>1, <2>2, AskedFacts DEF SpeechInv, SpeechTypeOK, WriteText, Write
  <2>4. reader' \in Readers
    BY DEF WriteText, Readers, Alive
  <2>5. QED
    BY <2>3, <2>4 DEF SpeechInv, SpeechTypeOK, WriteText, taskVars
<1>2. Stages'
  <2>1. main \notin {"build", "upstream", "dial", "run"}
    BY AskedFacts DEF SpeechInv, Stages, Conversation, WriteText
  <2>2. reader' # "none" /\ main' = main /\ call' = call /\ answer' = answer
    BY DEF WriteText
  <2>3. QED
    BY <2>1, <2>2 DEF SpeechInv, Stages
<1>3. Conversation'
  BY AskedFacts, ErrorFacts DEF SpeechInv, SpeechTypeOK, Stages, Conversation, WriteText, Write, WriteFails, Alive, Readers, httpVars, wireVars, taskVars, readVars
<1>4. FramesFlow'
  BY AskedFacts, ErrorFacts DEF SpeechInv, SpeechTypeOK, Stages, Conversation, FramesFlow, Alive, Readers, WriteText, Write, WriteFails, Alive, Readers, httpVars, wireVars, taskVars, readVars
<1>5. ErrorBeforeEnd'
  BY AskedFacts, ErrorFacts DEF SpeechInv, SpeechTypeOK, Stages, ErrorBeforeEnd, WriteText, Write, WriteFails, Alive, Readers, httpVars, wireVars, taskVars, readVars
<1>6. CompleteAudio'
  BY AskedFacts, ErrorFacts DEF SpeechInv, SpeechTypeOK, Stages, Conversation, FramesFlow, CompleteAudio, WriteText, Write, WriteFails, Alive, Readers, httpVars, wireVars, taskVars, readVars
<1>7. QED
  BY <1>1, <1>2, <1>3, <1>4, <1>5, <1>6 DEF SpeechInv

(* An error goes to the caller or into the channel.                        *)
LEMMA SendErrorKeeps == SpeechInv /\ SendError => SpeechInv'
<1> SUFFICES ASSUME SpeechInv, SendError PROVE SpeechInv'
  OBVIOUS
<1>1. SpeechTypeOK'
  BY AskedFacts, ErrorFacts DEF SpeechInv, SpeechTypeOK, Stages, Mains, SendError, AfterError, ErrorSent, Refused, ChannelSize, Alive, Readers, httpVars, wireVars, taskVars, readVars
<1>2. Stages'
  BY AskedFacts, ErrorFacts DEF SpeechInv, SpeechTypeOK, Stages, Mains, SendError, AfterError, ErrorSent, Refused, ChannelSize, Alive, Readers, httpVars, wireVars, taskVars, readVars
<1>3. Conversation'
  BY AskedFacts, ErrorFacts DEF SpeechInv, SpeechTypeOK, Stages, Conversation, SendError, AfterError, ErrorSent, Refused, ChannelSize, Alive, Readers, httpVars, wireVars, taskVars, readVars
<1>4. FramesFlow'
  BY AskedFacts, ErrorFacts DEF SpeechInv, SpeechTypeOK, Stages, Conversation, FramesFlow, Alive, Readers, SendError, AfterError, ErrorSent, Refused, ChannelSize, Alive, Readers, httpVars, wireVars, taskVars, readVars
<1>5. ErrorBeforeEnd'
  BY AskedFacts, ErrorFacts DEF SpeechInv, SpeechTypeOK, Stages, ErrorBeforeEnd, SendError, AfterError, ErrorSent, Refused, ChannelSize, Alive, Readers, httpVars, wireVars, taskVars, readVars
<1>6. CompleteAudio'
  BY AskedFacts, ErrorFacts DEF SpeechInv, SpeechTypeOK, Stages, Conversation, FramesFlow, CompleteAudio, SendError, AfterError, ErrorSent, Refused, ChannelSize, Alive, Readers, httpVars, wireVars, taskVars, readVars
<1>7. QED
  BY <1>1, <1>2, <1>3, <1>4, <1>5, <1>6 DEF SpeechInv

(* The audio is handed over when it is complete.                           *)
LEMMA SendResultKeeps == SpeechInv /\ SendResult => SpeechInv'
<1> SUFFICES ASSUME SpeechInv, SendResult PROVE SpeechInv'
  OBVIOUS
<1>1. SpeechTypeOK'
  BY AskedFacts, ErrorFacts DEF SpeechInv, SpeechTypeOK, Stages, Mains, SendResult, Audio, Heard, ChannelSize, Alive, Readers, httpVars, wireVars, taskVars, readVars
<1>2. Stages'
  BY AskedFacts, ErrorFacts DEF SpeechInv, SpeechTypeOK, Stages, Mains, SendResult, Audio, Heard, ChannelSize, Alive, Readers, httpVars, wireVars, taskVars, readVars
<1>3. Conversation'
  BY AskedFacts, ErrorFacts DEF SpeechInv, SpeechTypeOK, Stages, Conversation, SendResult, Audio, Heard, ChannelSize, Alive, Readers, httpVars, wireVars, taskVars, readVars
<1>4. FramesFlow'
  <2>1. /\ server = "finished" /\ toClient = <<>> /\ buffer + FramesIn(toClient) = frames
        /\ buffer \in Nat /\ frames \in Nat
    BY DEF SpeechInv, SpeechTypeOK, FramesFlow, SendResult, Alive
  <2>2. buffer = frames
    BY <2>1, FramesEmpty
  <2>3. /\ reader' = "read" /\ toClient' = toClient /\ server' = server
        /\ frames' = frames /\ buffer' = buffer
    BY DEF SendResult, wireVars, taskVars
  <2>4. QED
    BY <2>1, <2>2, <2>3 DEF SpeechInv, FramesFlow
<1>5. ErrorBeforeEnd'
  BY AskedFacts, ErrorFacts DEF SpeechInv, SpeechTypeOK, Stages, ErrorBeforeEnd, SendResult, Audio, Heard, ChannelSize, Alive, Readers, httpVars, wireVars, taskVars, readVars
<1>6. CompleteAudio'
  <2>1. /\ server = "finished" /\ toClient = <<>> /\ buffer + FramesIn(toClient) = frames
        /\ buffer \in Nat /\ frames \in Nat
    BY DEF SpeechInv, SpeechTypeOK, FramesFlow, SendResult, Alive
  <2>2. buffer = frames /\ wire = call.input
    BY <2>1, FramesEmpty DEF SpeechInv, Conversation
  <2>3. /\ server' = server /\ call' = call
        /\ (answer' = answer \/ answer' = Audio(call.input))
    BY <2>1, <2>2 DEF SendResult, Heard, taskVars, httpVars
  <2>4. answer' = answer => CompleteAudio'
    BY <2>1, <2>3 DEF SpeechInv, Stages, CompleteAudio, SendResult
  <2>5. QED
    BY <2>1, <2>3, <2>4 DEF CompleteAudio, Audio
<1>7. QED
  BY <1>1, <1>2, <1>3, <1>4, <1>5, <1>6 DEF SpeechInv

(* The channels close after the error is sent.                             *)
LEMMA CloseChannelsKeeps == SpeechInv /\ CloseChannels => SpeechInv'
<1> SUFFICES ASSUME SpeechInv, CloseChannels PROVE SpeechInv'
  OBVIOUS
<1>1. SpeechTypeOK'
  BY AskedFacts, ErrorFacts DEF SpeechInv, SpeechTypeOK, Stages, Mains, CloseChannels, Alive, Readers, httpVars, wireVars, taskVars, readVars
<1>2. Stages'
  BY AskedFacts, ErrorFacts DEF SpeechInv, SpeechTypeOK, Stages, Mains, CloseChannels, Alive, Readers, httpVars, wireVars, taskVars, readVars
<1>3. Conversation'
  BY AskedFacts, ErrorFacts DEF SpeechInv, SpeechTypeOK, Stages, Conversation, CloseChannels, Alive, Readers, httpVars, wireVars, taskVars, readVars
<1>4. FramesFlow'
  BY AskedFacts, ErrorFacts DEF SpeechInv, SpeechTypeOK, Stages, Conversation, FramesFlow, Alive, Readers, CloseChannels, Alive, Readers, httpVars, wireVars, taskVars, readVars
<1>5. ErrorBeforeEnd'
  BY AskedFacts, ErrorFacts DEF SpeechInv, SpeechTypeOK, Stages, ErrorBeforeEnd, CloseChannels, Alive, Readers, httpVars, wireVars, taskVars, readVars
<1>6. CompleteAudio'
  BY AskedFacts, ErrorFacts DEF SpeechInv, SpeechTypeOK, Stages, Conversation, FramesFlow, CompleteAudio, CloseChannels, Alive, Readers, httpVars, wireVars, taskVars, readVars
<1>7. QED
  BY <1>1, <1>2, <1>3, <1>4, <1>5, <1>6 DEF SpeechInv

(* The server keeps to the protocol.                                       *)
LEMMA ServerStepKeeps == SpeechInv /\ ServerStep => SpeechInv'
<1> SUFFICES ASSUME SpeechInv, ServerStep PROVE SpeechInv'
  OBVIOUS
<1>1. SpeechTypeOK'
  <2>1. frames' \in Nat /\ server' \in {"idle", "started", "finished", "failed"}
    BY DEF SpeechInv, SpeechTypeOK, ServerStep, taskVars
  <2>2. toClient' \in Seq(Messages)
    <3>1. PICK m \in Messages : toClient' = Append(toClient, m)
      BY DEF ServerStep, ServerSends, Messages
    <3>2. QED
      BY <3>1 DEF SpeechInv, SpeechTypeOK
  <2>3. QED
    BY <2>1, <2>2 DEF SpeechInv, SpeechTypeOK, ServerStep, httpVars, readVars
<1>2. Stages'
  <2>1. reader # "none"
    BY SentFacts DEF SpeechInv, Stages, ServerStep
  <2>2. QED
    BY <2>1 DEF SpeechInv, Stages, ServerStep, httpVars, readVars
<1>3. Conversation'
  <2>1. PICK m \in Messages : conn = "open" /\ toClient' = Append(toClient, m)
      /\ (m = "task-started" <=> server = "idle")
    BY DEF SpeechInv, Conversation, ServerStep, ServerSends, Messages
  <2>2. /\ DOMAIN toClient' = DOMAIN toClient \cup {Len(toClient) + 1}
        /\ toClient'[Len(toClient) + 1] = m
        /\ \A i \in DOMAIN toClient : toClient'[i] = toClient[i]
    BY <2>1 DEF SpeechInv, SpeechTypeOK
  <2>3. server = "idle" => /\ toClient = <<>> /\ Len(toClient) = 0
                           /\ reader = "read" /\ toServer = Asked1
    BY <2>1, SentFacts DEF SpeechInv, Stages, Conversation, ServerStep
  <2>4. /\ server' # "idle" /\ toServer # Asked0
        /\ (server' = "finished" => toServer = Asked3)
    BY <2>3, SentFacts, AskedFacts DEF SpeechInv, SpeechTypeOK, Conversation, ServerStep, taskVars
  <2>5. \A i \in DOMAIN toClient' : toClient'[i] = "task-started" =>
                                       i = 1 /\ reader = "read" /\ toServer = Asked1
    BY <2>1, <2>2, <2>3 DEF SpeechInv, Conversation
  <2>6. /\ conn' = conn /\ toServer' = toServer /\ reader' = reader
        /\ wire' = wire /\ call' = call
    BY DEF ServerStep, httpVars, readVars
  <2>7. QED
    BY <2>4, <2>5, <2>6 DEF SpeechInv, Conversation
<1>4. FramesFlow'
  <2>1. server \in {"idle", "started"} /\ chanResult = <<>> /\ reader # "result"
    BY DEF SpeechInv, FramesFlow, ServerStep
  <2>2. PICK m \in Messages :
               /\ toClient' = Append(toClient, m)
               /\ (m = "task-finished" => server' = "finished")
               /\ frames' = frames + (IF m = "frame" THEN 1 ELSE 0)
    BY <2>1 DEF SpeechInv, SpeechTypeOK, ServerStep, ServerSends, Messages, taskVars
  <2>3. toClient \in Seq(Messages) /\ frames \in Nat /\ buffer \in Nat
    BY DEF SpeechInv, SpeechTypeOK
  <2>4. /\ DOMAIN toClient' = DOMAIN toClient \cup {Len(toClient) + 1}
        /\ Len(toClient') = Len(toClient) + 1 /\ toClient'[Len(toClient) + 1] = m
        /\ \A i \in DOMAIN toClient : toClient'[i] = toClient[i]
    BY <2>2, <2>3
  <2>5. FramesIn(Append(toClient, m)) = FramesIn(toClient) + (IF m = "frame" THEN 1 ELSE 0)
    BY <2>2, <2>3, FramesAppend
  <2>6. FramesIn(toClient') = FramesIn(Append(toClient, m)) /\ FramesIn(toClient) \in Nat
    BY <2>2, <2>3, FramesFinite
  <2>7. reader' = reader /\ buffer' = buffer /\ chanResult' = chanResult
    BY DEF ServerStep, readVars
  <2>8. reader \in Alive => buffer + FramesIn(toClient) = frames
    BY DEF SpeechInv, FramesFlow
  <2>9. reader' \in Alive => buffer' + FramesIn(toClient') = frames'
    BY <2>2, <2>3, <2>5, <2>6, <2>7, <2>8
  <2>10. \A i \in DOMAIN toClient' : toClient'[i] = "task-finished" =>
                                        i = Len(toClient') /\ server' = "finished"
    BY <2>1, <2>2, <2>4 DEF SpeechInv, FramesFlow
  <2>11. QED
    BY <2>1, <2>7, <2>9, <2>10 DEF FramesFlow
<1>5. ErrorBeforeEnd'
  BY AskedFacts, ErrorFacts DEF SpeechInv, SpeechTypeOK, Stages, ErrorBeforeEnd, ServerStep, ServerSends, Messages, httpVars, wireVars, taskVars, readVars
<1>6. CompleteAudio'
  BY AskedFacts, ErrorFacts DEF SpeechInv, SpeechTypeOK, Stages, Conversation, FramesFlow, CompleteAudio, ServerStep, ServerSends, Messages, httpVars, wireVars, taskVars, readVars
<1>7. QED
  BY <1>1, <1>2, <1>3, <1>4, <1>5, <1>6 DEF SpeechInv

(* A connection that breaks changes nothing else.                          *)
LEMMA ConnectionBreaksKeeps == SpeechInv /\ ConnectionBreaks => SpeechInv'
<1> SUFFICES ASSUME SpeechInv, ConnectionBreaks PROVE SpeechInv'
  OBVIOUS
<1>1. SpeechTypeOK'
  BY AskedFacts, ErrorFacts DEF SpeechInv, SpeechTypeOK, Stages, Mains, ConnectionBreaks, httpVars, wireVars, taskVars, readVars
<1>2. Stages'
  BY AskedFacts, ErrorFacts DEF SpeechInv, SpeechTypeOK, Stages, Mains, ConnectionBreaks, httpVars, wireVars, taskVars, readVars
<1>3. Conversation'
  BY AskedFacts, ErrorFacts DEF SpeechInv, SpeechTypeOK, Stages, Conversation, ConnectionBreaks, httpVars, wireVars, taskVars, readVars
<1>4. FramesFlow'
  BY AskedFacts, ErrorFacts DEF SpeechInv, SpeechTypeOK, Stages, Conversation, FramesFlow, Alive, Readers, ConnectionBreaks, httpVars, wireVars, taskVars, readVars
<1>5. ErrorBeforeEnd'
  BY AskedFacts, ErrorFacts DEF SpeechInv, SpeechTypeOK, Stages, ErrorBeforeEnd, ConnectionBreaks, httpVars, wireVars, taskVars, readVars
<1>6. CompleteAudio'
  BY AskedFacts, ErrorFacts DEF SpeechInv, SpeechTypeOK, Stages, Conversation, FramesFlow, CompleteAudio, ConnectionBreaks, httpVars, wireVars, taskVars, readVars
<1>7. QED
  BY <1>1, <1>2, <1>3, <1>4, <1>5, <1>6 DEF SpeechInv

(* Every step keeps the invariant.                                         *)
LEMMA SpeechStep == SpeechInv /\ [SpeechNext]_speechVars => SpeechInv'
<1> SUFFICES ASSUME SpeechInv, [SpeechNext]_speechVars PROVE SpeechInv'
  OBVIOUS
<1>1. CASE MainStep
  BY <1>1, BuildKeeps, AnswerKeeps, DialKeeps, RunTaskKeeps, TakeErrorKeeps,
     TakeResultKeeps, ParkKeeps, LeaveKeeps DEF MainStep
<1>2. CASE ReaderStep
  BY <1>2, ReadMessageKeeps, ReadFailsKeeps, WriteTextKeeps, SendErrorKeeps,
     SendResultKeeps, CloseChannelsKeeps DEF ReaderStep
<1>3. CASE ServerStep
  BY <1>3, ServerStepKeeps
<1>4. CASE ConnectionBreaks
  BY <1>4, ConnectionBreaksKeeps
<1>5. CASE UNCHANGED speechVars
  <2>1. /\ UNCHANGED <<call, wire, main, answer, conn, toServer, toClient>>
        /\ UNCHANGED <<server, frames, reader, buffer, chanError, chanResult, closed>>
    BY <1>5 DEF speechVars, httpVars, wireVars, taskVars, readVars
  <2>2. SpeechTypeOK' /\ Stages' /\ Conversation'
    BY <2>1 DEF SpeechInv, SpeechTypeOK, Stages, Conversation
  <2>3. FramesFlow' /\ ErrorBeforeEnd' /\ CompleteAudio'
    BY <2>1 DEF SpeechInv, FramesFlow, ErrorBeforeEnd, CompleteAudio
  <2>4. QED
    BY <2>2, <2>3 DEF SpeechInv
<1>6. QED
  BY <1>1, <1>2, <1>3, <1>4, <1>5 DEF SpeechNext

(* The invariant of a call holds throughout, for any server that keeps to  *)
(* the protocol, any answers and any breaking of the connection.           *)
THEOREM SpeechInvariant == SpeechSpec => []SpeechInv
<1>1. QED
  BY SpeechStarts, SpeechStep, PTL DEF SpeechSpec

(* The call and the conversation keep their types.                         *)
THEOREM SpeechTypeCorrect == SpeechSpec => []SpeechTypeOK
<1>1. SpeechInv => SpeechTypeOK
  BY DEF SpeechInv
<1>2. QED
  BY <1>1, SpeechInvariant, PTL

(* CosyVoice's audio is complete: DoSpeech (cosyvoice/speech.go:163-293)   *)
(* hands out the whole text, or nothing from a reader that has ended.      *)
THEOREM SpeechCompleteAudio == SpeechSpec => []CompleteAudio
<1>1. SpeechInv => CompleteAudio
  BY DEF SpeechInv
<1>2. QED
  BY <1>1, SpeechInvariant, PTL

(* The server is asked to run, to speak and to finish, in this order       *)
(* (cosyvoice/speech.go:193-227, 261-283), although two goroutines write.  *)
THEOREM SpeechTaskProtocol == SpeechSpec => []TaskProtocol
<1>1. SpeechInv => TaskProtocol
  <2> SUFFICES ASSUME SpeechInv PROVE TaskProtocol
    OBVIOUS
  <2>1. toServer \in {Asked0, Asked1, Asked2, Asked3}
    BY DEF SpeechInv, SpeechTypeOK
  <2>2. /\ Asked0 = SubSeq(Asked3, 1, 0) /\ Asked1 = SubSeq(Asked3, 1, 1)
        /\ Asked2 = SubSeq(Asked3, 1, 2) /\ Asked3 = SubSeq(Asked3, 1, 3)
    BY AskedPrefixes
  <2>3. \E n \in 0..3 : toServer = SubSeq(Asked3, 1, n)
    BY <2>1, <2>2
  <2>4. QED
    BY <2>3 DEF TaskProtocol, Asked3
<1>2. QED
  BY <1>1, SpeechInvariant, PTL
===============================================================================
