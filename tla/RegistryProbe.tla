---------------------------- MODULE RegistryProbe ----------------------------
(***************************************************************************)
(* One call of registry.Platforms (internal/registry/probe.go): the pull   *)
(* token and then the manifest, each fetched by get with its retries, from *)
(* a registry that may decline, fail or mislead; and what the two callers, *)
(* cmd/triage and cmd/tilelint, make of the answer.                        *)
(*                                                                         *)
(* A response is abstracted to its status class, its Retry-After and what  *)
(* its body decodes to.  A time.Duration is an integer from -Limit up to   *)
(* Limit - 1 that counts ticks, Second of them a second.                   *)
(***************************************************************************)
EXTENDS AppRequest

CONSTANTS
  Attempts,   \* attempts, the tries of one get
  Second,     \* time.Second, which is also baseDelay
  MaxDelay,   \* maxDelay
  Limit,      \* 2^(w-1), for the width w of a Duration and of an int
  Headers,    \* the Retry-After headers a registry can send
  Entries     \* the platforms a manifest list can name

\* A header carries a number of seconds, a date that many ticks ahead, or is
\* neither.
Header == [kind : {"secs", "date", "none"}, n : Int]

ASSUME ProbeAssumption ==
  /\ Attempts \in Nat \ {0} /\ Second \in Nat \ {0}
  /\ MaxDelay \in Nat /\ MaxDelay >= Second
  /\ Limit \in Nat /\ MaxDelay < Limit
  /\ \A n \in 0 .. Attempts - 2 : Second * 2 ^ n \in 1 .. Limit - 1
  /\ Headers \subseteq Header
  /\ \A h \in Headers : h.n \in -Limit .. Limit - 1
  /\ {"linux/amd64", "linux/arm64"} \subseteq Entries

NoHeader == [kind |-> "none", n |-> 0]

VARIABLES
  image,   \* the manifest list the reference names, {} for a plain manifest
  phase,   \* what is fetched: "token", "manifest", or "done"
  tries,   \* requests this get has made
  last,    \* the last of them: "none", "error" or the class of its status
  header,  \* the Retry-After of the response in hand
  open,    \* response bodies not closed
  slept,   \* ticks slept in this call
  result   \* what Platforms returns

vars == <<image, phase, tries, last, header, open, slept, result>>

Pending == [err |-> FALSE, platforms |-> {}]
Failed  == [err |-> TRUE, platforms |-> {}]

TypeOK ==
  /\ image \subseteq Entries
  /\ phase \in {"token", "manifest", "done"}
  /\ tries \in 0 .. Attempts
  /\ last \in {"none", "error", "ok", "refused", "notYet"}
  /\ header \in Headers \cup {NoHeader}
  /\ open \in Nat /\ slept \in Nat
  /\ result \in [err : BOOLEAN, platforms : SUBSET Entries]

Init ==
  /\ image \in SUBSET Entries
  /\ phase = "token" /\ tries = 0 /\ last = "none" /\ header = NoHeader
  /\ open = 0 /\ slept = 0 /\ result = Pending

-----------------------------------------------------------------------------
Least(a, b) == IF a < b THEN a ELSE b

\* Go's arithmetic on signed integers of that width.
Wrap(x) == ((x + Limit) % (2 * Limit)) - Limit

\* Mutant: the header is obeyed without the cap.
WaitUncapped(n, h) ==
  CASE h.kind = "secs" /\ h.n >= 0 -> Wrap(h.n * Second)
    [] h.kind = "date" -> IF h.n > 0 THEN Least(h.n, MaxDelay) ELSE 0
    [] OTHER -> Least(Second * 2 ^ n, MaxDelay)

\* Mutant: seconds of "not yet" are taken for ticks.
WaitTicks(n, h) ==
  CASE h.kind \in {"secs", "date"} /\ h.n >= 0 -> Least(h.n, MaxDelay)
    [] h.kind = "date" -> 0
    [] OTHER -> Least(Second * 2 ^ n, MaxDelay)

\* wait(n, h)
Wait(n, h) ==
  CASE h.kind = "secs" /\ h.n >= 0 -> Least(Wrap(h.n * Second), MaxDelay)
    [] h.kind = "date" -> IF h.n > 0 THEN Least(h.n, MaxDelay) ELSE 0
    [] OTHER -> Least(Second * 2 ^ n, MaxDelay)

\* Mutant: a negative pause is taken off.
SleptSigned(d) == d

\* time.Sleep returns at once for zero and less.
Slept(d) == IF d > 0 THEN d ELSE 0

\* The pause before this request; the header of a response that a transport
\* error has replaced is gone.
Pause == IF tries = 0 THEN 0 ELSE Slept(Wait(tries - 1, header))

\* Mutant: any status but 200 is worth another try.
KeepsTryingRefused ==
  last \in {"none", "error", "notYet", "refused"} /\ tries < Attempts

\* get goes on while nothing but "not yet" was answered and tries are left.
KeepsTrying == last \in {"none", "error", "notYet"} /\ tries < Attempts

\* Mutant: the body of a declined response is left open.
KeptOpen == open

\* `if resp != nil { resp.Body.Close() }`: a transport error has no body.
Closed == IF last \in {"none", "error"} THEN open ELSE open - 1

\* Mutant: the loop has no bound.
RequestUncounted ==
  /\ phase # "done" /\ KeepsTrying
  /\ slept' = slept + Pause
  /\ \/ last' = "error" /\ header' = NoHeader /\ open' = Closed
     \/ /\ last' \in {"ok", "refused", "notYet"}
        /\ header' \in Headers \cup {NoHeader}
        /\ open' = Closed + 1
  /\ UNCHANGED <<image, phase, tries, result>>

\* One turn of get's loop: sleep, close the response in hand, ask again.
Request ==
  /\ phase # "done" /\ KeepsTrying
  /\ slept' = slept + Pause
  /\ tries' = tries + 1
  /\ \/ last' = "error" /\ header' = NoHeader /\ open' = Closed
     \/ /\ last' \in {"ok", "refused", "notYet"}
        /\ header' \in Headers \cup {NoHeader}
        /\ open' = Closed + 1
  /\ UNCHANGED <<image, phase, result>>

\* What get returned is final; the caller closes the body it was given.
Return(to, value) ==
  /\ phase' = to /\ result' = value
  /\ open' = Closed
  /\ tries' = 0 /\ last' = "none" /\ header' = NoHeader
  /\ UNCHANGED <<image, slept>>

\* Platforms and token return an error for anything but a 200.
NotOk ==
  /\ phase # "done" /\ ~KeepsTrying /\ last # "ok"
  /\ Return("done", Failed)

\* A body that does not decode, or a token that is empty.
Undecodable ==
  /\ phase # "done" /\ ~KeepsTrying /\ last = "ok"
  /\ Return("done", Failed)

Token ==
  /\ phase = "token" /\ ~KeepsTrying /\ last = "ok"
  /\ Return("manifest", Pending)

Attestation == "unknown/unknown"

\* Attestations carry a platform that is none.
Seen(manifests) == manifests \ {Attestation}

Manifest ==
  /\ phase = "manifest" /\ ~KeepsTrying /\ last = "ok"
  /\ Return("done", [err |-> FALSE, platforms |-> Seen(image)])

Step == Request \/ NotOk \/ Undecodable \/ Token \/ Manifest

Next == Step

Spec == Init /\ [][Next]_vars /\ WF_vars(Step)

-----------------------------------------------------------------------------
(* The callers, on one answer.                                             *)

\* cmd/tilelint: the tile's arch against each of its images.
LintRefuses(arch, answer) ==
  \/ answer.err \/ answer.platforms = {}
  \/ ~(Required(arch) \subseteq answer.platforms)

-----------------------------------------------------------------------------
\* "a retryable answer is retried, and only a real answer - or a registry that
\* will not stop saying wait - reaches the caller": no request repeats one that
\* was answered, and a registry that said "not yet" fails the call only after
\* all the attempts.
OnlyRealAnswers ==
  [][/\ tries > 0 /\ tries' = tries + 1 => last \in {"error", "notYet"}
     /\ phase # "done" /\ phase' = "done" /\ last \in {"error", "notYet"}
          => tries = Attempts]_vars

\* However the registry answers, at most one response body is open, and none
\* once the call returned, on every path of both fetches.
BodiesClosed == open <= 1 /\ (phase = "done" => open = 0)

\* "so one hostile or confused header cannot park CI": the sleep of a whole
\* call is bounded by the cap on each of its pauses.
NeverParked == slept <= 2 * (Attempts - 1) * MaxDelay

\* The call ends, whatever the registry answers.
ProbeReturns == <>(phase = "done")

\* What triage and lint say of one and the same answer fits together: a claim
\* one of them accepts of an image that names its platforms the other accepts,
\* what triage records for a requester who is not sure passes lint, and lint
\* passes no claim for a platform that the image does not publish to run.
GatesAgree ==
  phase = "done" /\ ~result.err =>
    /\ result.platforms \subseteq image \ {Attestation}
    /\ result.platforms # {} => \A arch \in Arches :
         TriageBlocks(arch, result) <=> LintRefuses(arch, result)
    /\ LET arch == InferArch(result.platforms)
       IN arch \in Arches => ~LintRefuses(arch, result)
    /\ \A arch \in Arches :
         ~LintRefuses(arch, result) => Required(arch) \subseteq image

\* "A registry that sends Retry-After has told us the answer and is obeyed over
\* our own guess, capped": after a "not yet" no request goes out earlier than
\* its registry asked, or than the cap, in seconds or by date; for seconds that
\* a Duration can hold.  (For more of them the pause can be none at all.)
HeaderObeyed ==
  [][tries' > tries /\ last = "notYet" =>
       LET pause == slept' - slept
           asked == header.n * Second
       IN /\ header.kind = "secs" /\ asked \in 0 .. Limit - 1 =>
               pause >= Least(asked, MaxDelay)
          /\ header.kind = "date" => pause >= Least(header.n, MaxDelay)]_vars

=============================================================================
