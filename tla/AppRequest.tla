----------------------------- MODULE AppRequest -----------------------------
(***************************************************************************)
(* cmd/triage on one issue body: the form it parses, the checks, and the   *)
(* verdict.  A body is the sequence of its "### Label" sections.  An id is *)
(* a DNS label unless it is "" or "No Label"; an image reference is        *)
(* abstracted to how it ends.  An answer is what registry.Platforms        *)
(* returns.  What is echoed into the comment is left out.                  *)
(***************************************************************************)
EXTENDS Integers, Sequences, FiniteSets

Arches == {"both", "arm64", "amd64"}

\* requiredPlatforms, and the map in archProblems of cmd/tilelint.
Required(arch) ==
  CASE arch = "arm64" -> {"linux/arm64"}
    [] arch = "amd64" -> {"linux/amd64"}
    [] OTHER -> {"linux/amd64", "linux/arm64"}

\* Mutant: both, for whatever publishes more than one platform.
InferBySize(platforms) ==
  IF Cardinality(platforms) > 1 THEN "both"
  ELSE IF "linux/arm64" \in platforms THEN "arm64"
  ELSE IF "linux/amd64" \in platforms THEN "amd64" ELSE "unknown"

\* What the tile is recorded as when the requester is not sure.
InferArch(platforms) ==
  IF Required("both") \subseteq platforms THEN "both"
  ELSE IF "linux/arm64" \in platforms THEN "arm64"
  ELSE IF "linux/amd64" \in platforms THEN "amd64" ELSE "unknown"

\* A registry that cannot be read blocks; a manifest that names no platform,
\* and a requester who is not sure, do not.
TriageBlocks(declared, answer) ==
  \/ answer.err
  \/ /\ answer.platforms # {} /\ declared # "unknown"
     /\ ~(Required(declared) \subseteq answer.platforms)

-----------------------------------------------------------------------------
Labels == {"id", "name", "upstream", "why", "image", "arch"}

\* The last section of a label counts; none, or "_No response_", is no answer.
ParseForm(body) ==
  LET Of(label) == {i \in DOMAIN body : body[i].label = label}
      Last(label) == CHOOSE i \in Of(label) : \A j \in Of(label) : j <= i
  IN [label \in Labels |->
       IF Of(label) = {} \/ body[Last(label)].value = "_No response_" THEN ""
       ELSE body[Last(label)].value]

\* The dropdown's prose begins with the arch, or it is not known.
ParseArch(prose) == IF prose \in Arches THEN prose ELSE "unknown"

\* tiles/<id>/tile.json in the checkout; one that cannot be read is carried.
TileFiles == {"absent", "unreadable", "preview", "available"}
TileStatus(file) ==
  CASE file = "absent"  -> "none"
    [] file = "preview" -> "preview"
    [] OTHER            -> "available"

\* Being asked for a preview tile is a vote for it and blocks nothing.
IdBlocks(id, file) ==
  id \in {"", "No Label"} \/ TileStatus(file) = "available"

\* Without a digest, `latest` moves, and so does no tag; the port of a registry
\* is none.
Moving == {"app", "host:5000/app", "app:latest"}
Images == Moving \cup {"app:1.2", "app@sha256"}

ImageBlocks(image, declared, answer) ==
  image \in {""} \cup Moving \/ TriageBlocks(declared, answer)

\* Everything that blocks; an empty body is not even parsed.
Blocks(body, file, answer) ==
  LET form == ParseForm(body)
  IN \/ body = <<>>
     \/ IdBlocks(form.id, file)
     \/ form.name = "" \/ form.why = ""
     \/ form.upstream # "https"
     \/ ImageBlocks(form.image, ParseArch(form.arch), answer)

=============================================================================
