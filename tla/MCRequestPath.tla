---------------------------- MODULE MCRequestPath ----------------------------
(***************************************************************************)
(* Two requests on a route with two targets: cluster "a" overrides,        *)
(* removes and has a default size that is none, "b" has defaults and fixes *)
(* the size of images.                                                     *)
(***************************************************************************)
EXTENDS RequestPath

MCKeys == {"model", "stream_options", "voice", "response_format", "t"}
Body(model, so, voice, t) ==
  [k \in MCKeys |-> CASE k = "model" -> model [] k = "stream_options" -> so
                      [] k = "voice" -> voice
                      [] k = "response_format" -> Absent [] OTHER -> t]
None == Body(Absent, Absent, Absent, Absent)

Client(kind, header, json, stream, body) ==
  [kind |-> kind, header |-> header, json |-> json, stream |-> stream,
   body |-> body, sizeGiven |-> FALSE, size |-> <<>>]

Chat == Client("chat", "key", TRUE, TRUE, Body("m", Absent, Absent, "1"))
Speech == Client("tts", "key", TRUE, FALSE, Body("m", Absent, "v", Absent))
Image == Client("image", "key", TRUE, FALSE, Body("m", Absent, Absent, Absent))
Others ==
  {Client("options", "key", TRUE, FALSE, None),
   Client("models", "key", TRUE, FALSE, None),
   Client("chat", "none", TRUE, FALSE, None),
   Client("chat", "key", FALSE, FALSE, None),
   Client("completions", "key", TRUE, FALSE, Body("x", Absent, Absent, Absent)),
   Chat,
   Image,
   [Image EXCEPT !.sizeGiven = TRUE, !.size = <<1, 2>>]}

CONSTANT r1
MCClientRequests == [r \in Requests |-> IF r = r1 THEN Others ELSE {Speech}]

Answer(outcome, valid, allow, deny) ==
  [outcome |-> outcome, valid |-> valid, allow |-> allow, deny |-> deny]
Unreachable == Answer("other", FALSE, {}, {})
Granted     == Answer("ok", TRUE, {{"m", "x", "a"}}, {})
MCAuthAnswers ==
  [r \in Requests |->
     {Unreachable, Granted} \cup
     (IF r = r1 THEN {Answer("ok", FALSE, {}, {}), Answer("ok", TRUE, {}, {{"m"}})}
      ELSE {})]

MCClusterConfigs ==
  [c \in {"a", "b"} |->
     IF c = "a"
     THEN [defaults |-> Body(Absent, Absent, Absent, "4"),
           overrides |-> Body(Absent, Absent, Absent, "2"),
           removes |-> {"model"}, size |-> [how |-> "default", parts |-> <<7>>],
           meter |-> "OUTPUT", speech |-> "openai"]
     ELSE [defaults |-> Body(Absent, Absent, "w", "3"), overrides |-> None,
           removes |-> {}, size |-> [how |-> "override", parts |-> <<3, 4>>],
           meter |-> "INPUT", speech |-> "volcengine"]]

MCTargets == <<"a", "b">>

MCFallbacks ==
  {[on |-> FALSE, hasMax |-> FALSE, maxRetries |-> 0],
   [on |-> TRUE, hasMax |-> TRUE, maxRetries |-> 2]}
UnlimitedFallback == {[on |-> TRUE, hasMax |-> FALSE, maxRetries |-> 0]}

MCBalancers ==
  {[policy |-> "LEAST_REQUEST", weights |-> <<1, 2>>],
   [policy |-> "ROUND_ROBIN", weights |-> <<0, 1>>],
   [policy |-> "ROUND_ROBIN", weights |-> <<0, 0>>],
   [policy |-> "UNSPECIFIED", weights |-> <<1, 1>>]}
FirstTarget == {[policy |-> "UNSPECIFIED", weights |-> <<1, 1>>]}

Reply(net, content, status, error, usage) ==
  [net |-> net, content |-> content, status |-> status, json |-> TRUE,
   body |-> [error |-> error, objectIsError |-> FALSE, message |-> "absent"],
   model |-> TRUE, usage |-> usage,
   data |-> <<[b64 |-> TRUE, url |-> FALSE, resolves |-> TRUE,
               size |-> [width |-> 5, height |-> 6]]>>]
MCReplies ==
  {Reply(TRUE, "json", 0, "absent", <<>>),
   Reply(FALSE, "json", 200, "absent", <<"tokens">>),
   Reply(FALSE, "json", 429, "map", <<"tokens">>),
   Reply(FALSE, "sse", 200, "absent", <<>>)}
==============================================================================
