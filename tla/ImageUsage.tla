------------------------------ MODULE ImageUsage ------------------------------
(***************************************************************************)
(* What an image request asks for and what its response is metered as.     *)
(* Widths and heights are uint64 in the code: a product wraps at Width64.  *)
(***************************************************************************)
EXTENDS Integers, Sequences, SequencesExt

CONSTANT Width64      \* 2^64 in the code; a smaller power lets TLC wrap it

ASSUME Width64Assumption == Width64 \in Nat \ {0}

NoSize      == [width |-> 0, height |-> 0]
DefaultSize == [width |-> 1024, height |-> 1024]

\* A "size" text is the sequence of its parts between the "x"s; a part that is
\* no unsigned number is -1.  <<>> is the empty text.
ParsedSize(ok, size) == [ok |-> ok, size |-> size]

parseImageGenerationsSizeString(parts) ==
  IF Len(parts) = 2 /\ parts[1] >= 0 /\ parts[2] >= 0
  THEN ParsedSize(TRUE, [width |-> parts[1], height |-> parts[2]])
  ELSE ParsedSize(FALSE, NoSize)

\* The size of a new request: the default when the member is absent.
RequestSize(given, parts) ==
  IF given THEN parseImageGenerationsSizeString(parts)
  ELSE ParsedSize(TRUE, DefaultSize)

-----------------------------------------------------------------------------
\* One member of "data": which of b64_json and url it has, what an attempt to
\* read the image gives (resolves, width, height).
Images(sizes) ==
  [b64: BOOLEAN, url: BOOLEAN, resolves: BOOLEAN, size: sizes]

\* NewImageGenerationsImage gives nil for a member with neither.
NewImageGenerationsImages(data) == SelectSeq(data, LAMBDA d : d.b64 \/ d.url)

\* batchResolveImages reads all images side by side and joins the errors:
\* one image that cannot be read fails the response.
batchResolveImages(images) == \A i \in DOMAIN images : images[i].resolves

Resolution(size) == (size.width * size.height) % Width64

\* The size one image is metered as.  The GREATEST policy compares the size
\* of the request with the size in the usage record, which is still the
\* request's: the image that was read is not looked at.
MeteredSize(sizeFrom, requested, image) ==
  CASE sizeFrom = "OUTPUT" -> image.size
    [] sizeFrom = "GREATEST" ->
         LET metered == requested
         IN  IF Resolution(requested) > Resolution(metered) THEN requested
             ELSE metered
    [] OTHER -> requested

\* The usage of a response: one record per image, or none when an image that
\* the policy has to read cannot be read.
resolveUsage(sizeFrom, requested, data) ==
  LET images == NewImageGenerationsImages(data)
  IN  IF sizeFrom \in {"OUTPUT", "GREATEST"} /\ ~batchResolveImages(images)
      THEN [ok |-> FALSE, images |-> <<>>]
      ELSE [ok |-> TRUE,
            images |-> [i \in DOMAIN images |->
                          MeteredSize(sizeFrom, requested, images[i])]]

\* The usage filter reports the first image's size for all of them.
ReportedImages(usage) ==
  [size |-> usage[1], numbers |-> Len(usage)]
=============================================================================
