------------------------------ MODULE MCIntake ------------------------------
(* Model checking of Intake: a complete request, one with a claim the image  *)
(* does not keep and one whose last image section takes the first one back;  *)
(* the image publishes amd64 alone, or its registry says nothing.  The claim *)
(* starts from a request triage passes and from four it cannot pass.         *)
EXTENDS Intake

Form(id, image, arch) ==
  << [label |-> "id", value |-> id], [label |-> "name", value |-> "App"],
     [label |-> "image", value |-> image],
     [label |-> "upstream", value |-> "https"],
     [label |-> "arch", value |-> arch], [label |-> "why", value |-> "yes"] >>

Good    == Form("app", "app:1.2", "amd64")
Claimed == Form("app", "app:1.2", "both")
Unsure  == Form("app", "app@sha256", "not sure")
Portly  == Form("app", "host:5000/app", "amd64")
Twice   == Append(Good, [label |-> "image", value |-> "app:latest"])
Mute    == Append(Good, [label |-> "why", value |-> "_No response_"])
NoId    == Form("No Label", "app:1.2", "amd64")

MCBodies == {Good, Claimed, Twice}
MCClaims == {Unsure, Portly, Mute, NoId, <<>>}

MCAnswers ==
  { [err |-> FALSE, platforms |-> {"linux/amd64"}],
    [err |-> TRUE, platforms |-> {}] }

=============================================================================
