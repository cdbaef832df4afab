------------------------- MODULE RegistryProbeProofs -------------------------
(***************************************************************************)
(* Proofs about RegistryProbe, for any number of attempts, any delays and  *)
(* any headers and platforms.                                              *)
(***************************************************************************)
EXTENDS RegistryProbe, TLAPS

\* What the loop and its callers keep about the response in hand: a body is
\* open exactly while there is one, and nothing is in hand between two fetches
\* and after the call.
InHand ==
  /\ phase \in {"token", "manifest", "done"}
  /\ tries \in 0 .. Attempts
  /\ last \in {"none", "error", "ok", "refused", "notYet"}
  /\ last = "none" <=> tries = 0
  /\ phase = "done" => last = "none"
  /\ open = IF last \in {"none", "error"} THEN 0 ELSE 1

\* Init establishes it.
LEMMA InHandInit == Init => InHand
BY ProbeAssumption DEF Init, InHand

\* Each step of get and of its callers keeps it.
LEMMA InHandNext == InHand /\ [Next]_vars => InHand'
<1> SUFFICES ASSUME InHand, [Next]_vars PROVE InHand'
  OBVIOUS
<1> USE ProbeAssumption
<1>1. CASE Request
  BY <1>1 DEF Request, KeepsTrying, Closed, InHand
<1>2. CASE NotOk
  BY <1>2 DEF NotOk, Return, KeepsTrying, Closed, InHand
<1>3. CASE Undecodable
  BY <1>3 DEF Undecodable, Return, KeepsTrying, Closed, InHand
<1>4. CASE Token
  BY <1>4 DEF Token, Return, KeepsTrying, Closed, InHand
<1>5. CASE Manifest
  BY <1>5 DEF Manifest, Return, KeepsTrying, Closed, InHand
<1>6. CASE UNCHANGED vars
  BY <1>6 DEF vars, InHand
<1>7. QED
  BY <1>1, <1>2, <1>3, <1>4, <1>5, <1>6 DEF Next, Step

\* It holds throughout.
LEMMA InHandHolds == Spec => []InHand
<1>1. QED
  BY InHandInit, InHandNext, PTL DEF Spec

\* However the registry answers, get and its callers leave no body open behind
\* them, and never hold two.
THEOREM BodiesClosedProven == Spec => []BodiesClosed
<1>1. InHand => BodiesClosed
  BY DEF InHand, BodiesClosed
<1>2. QED
  BY <1>1, InHandHolds, PTL

\* No request repeats one that was answered, and a registry that said "not
\* yet" fails the call only after all the attempts, however many there are.
THEOREM OnlyRealAnswersProven == Spec => OnlyRealAnswers
<1> DEFINE Repeats == tries > 0 /\ tries' = tries + 1 =>
                        last \in {"error", "notYet"}
           Unanswered == last \in {"error", "notYet"}
           GivesUp == phase # "done" /\ phase' = "done" /\ Unanswered =>
                        tries = Attempts
<1>1. InHand /\ [Next]_vars => [Repeats /\ GivesUp]_vars
  <2> SUFFICES ASSUME InHand, Next PROVE Repeats /\ GivesUp
    OBVIOUS
  <2> USE ProbeAssumption
  <2>1. CASE Request
    BY <2>1 DEF Request, KeepsTrying, InHand
  <2>2. CASE NotOk
    BY <2>2 DEF NotOk, Return, KeepsTrying, InHand
  <2>3. CASE Undecodable \/ Token \/ Manifest
    BY <2>3 DEF Undecodable, Token, Manifest, Return, KeepsTrying, InHand
  <2>4. QED
    BY <2>1, <2>2, <2>3 DEF Next, Step
<1>2. QED
  BY <1>1, InHandHolds, PTL DEF Spec, OnlyRealAnswers

-----------------------------------------------------------------------------
(* The answer.                                                             *)

\* An answer without an error is the image's own list, without attestations.
Answered ==
  phase = "done" =>
    \/ result = Failed
    \/ result = [err |-> FALSE, platforms |-> Seen(image)]

\* Only the last step of a call sets it.
LEMMA AnsweredHolds == Spec => []Answered
<1>1. Init => Answered
  BY DEF Init, Answered
<1>2. Answered /\ [Next]_vars => Answered'
  <2> SUFFICES ASSUME Answered, [Next]_vars PROVE Answered'
    OBVIOUS
  <2>1. CASE Request
    BY <2>1 DEF Request, Answered
  <2>2. CASE NotOk \/ Undecodable
    BY <2>2 DEF NotOk, Undecodable, Return, Answered
  <2>3. CASE Token
    BY <2>3 DEF Token, Return, Answered
  <2>4. CASE Manifest
    BY <2>4 DEF Manifest, Return, Answered
  <2>5. CASE UNCHANGED vars
    BY <2>5 DEF vars, Answered
  <2> QED
    BY <2>1, <2>2, <2>3, <2>4, <2>5 DEF Next, Step
<1> QED
  BY <1>1, <1>2, PTL DEF Spec

\* A claim that names the platforms it requires is judged alike by triage and
\* by lint on an image that names its own.
LEMMA SameJudgement ==
  ASSUME NEW answer, ~answer.err, answer.platforms # {}, NEW arch \in Arches
  PROVE  TriageBlocks(arch, answer) <=> LintRefuses(arch, answer)
BY DEF Arches, TriageBlocks, LintRefuses

\* What triage infers is published.
LEMMA InferredIsPublished ==
  ASSUME NEW platforms, InferArch(platforms) \in Arches
  PROVE  Required(InferArch(platforms)) \subseteq platforms
<1>1. CASE Required("both") \subseteq platforms
  BY <1>1 DEF InferArch
<1>2. CASE ~(Required("both") \subseteq platforms) /\ "linux/arm64" \in platforms
  BY <1>2 DEF InferArch, Required
<1>3. CASE /\ ~(Required("both") \subseteq platforms)
           /\ "linux/arm64" \notin platforms /\ "linux/amd64" \in platforms
  BY <1>3 DEF InferArch, Required
<1>4. CASE /\ ~(Required("both") \subseteq platforms)
           /\ "linux/arm64" \notin platforms /\ "linux/amd64" \notin platforms
  BY <1>4 DEF InferArch, Arches
<1> QED
  BY <1>1, <1>2, <1>3, <1>4

\* Every claim requires some platform, and no claim an attestation.
LEMMA RequiredIsReal ==
  \A arch \in Arches : Required(arch) # {} /\ Attestation \notin Required(arch)
BY DEF Arches, Required, Attestation

\* Whatever an image publishes, triage and lint fit together on the answer: in
\* the claims they accept, in what triage records for a requester who is not
\* sure, and in that lint passes no claim the image does not keep.
THEOREM GatesAgreeProven == Spec => []GatesAgree
<1>1. Answered => GatesAgree
  <2> SUFFICES ASSUME Answered, phase = "done", ~result.err PROVE GatesAgree
    BY DEF GatesAgree
  <2>1. result.err = FALSE /\ result.platforms = image \ {Attestation}
    BY DEF Answered, Failed, Seen
  <2>2. \A arch \in Arches :
          ~LintRefuses(arch, result) => Required(arch) \subseteq image
    BY <2>1 DEF LintRefuses
  <2>3. ASSUME InferArch(result.platforms) \in Arches
        PROVE  ~LintRefuses(InferArch(result.platforms), result)
    BY <2>1, <2>3, InferredIsPublished, RequiredIsReal DEF LintRefuses
  <2>4. result.platforms # {} => \A arch \in Arches :
          TriageBlocks(arch, result) <=> LintRefuses(arch, result)
    BY SameJudgement
  <2> QED
    BY <2>1, <2>2, <2>3, <2>4 DEF GatesAgree
<1> QED
  BY <1>1, AnsweredHolds, PTL

-----------------------------------------------------------------------------
(* The pauses.                                                             *)

\* The constants, one by one.
LEMMA ProbeBounds ==
  /\ Attempts \in Nat /\ Attempts >= 1 /\ Second \in Nat /\ Second >= 1
  /\ MaxDelay \in Nat /\ MaxDelay >= 1 /\ Limit \in Nat /\ MaxDelay < Limit
  /\ \A n \in 0 .. Attempts - 2 : Second * 2 ^ n \in Nat
<1>1. /\ Attempts \in Nat \ {0} /\ Second \in Nat \ {0}
      /\ MaxDelay \in Nat /\ MaxDelay >= Second /\ Limit \in Nat
      /\ MaxDelay < Limit
      /\ \A n \in 0 .. Attempts - 2 : Second * 2 ^ n \in 1 .. Limit - 1
  BY ProbeAssumption, Zenon
<1>2. \A n \in 0 .. Attempts - 2 : Second * 2 ^ n \in Nat
  BY <1>1
<1> QED
  BY <1>1, <1>2

\* Wrapping yields a number, and leaves one that fits alone.
LEMMA WrapFits ==
  ASSUME NEW x \in Int
  PROVE  Wrap(x) \in Int /\ (x \in 0 .. Limit - 1 => Wrap(x) = x)
<1>1. Limit \in Nat /\ Limit >= 1
  BY ProbeBounds
<1>2. (x + Limit) % (2 * Limit) \in Int
  BY <1>1
<1>3. ASSUME x \in 0 .. Limit - 1
      PROVE  (x + Limit) % (2 * Limit) = x + Limit
  BY <1>1, <1>3
<1> QED
  BY <1>1, <1>2, <1>3 DEF Wrap

\* A pause is a number of ticks, the cap at most, and what the header asks.
LEMMA PauseBounded ==
  ASSUME NEW n \in 0 .. Attempts - 2, NEW h \in Headers \cup {NoHeader}
  PROVE  /\ Slept(Wait(n, h)) \in 0 .. MaxDelay
         /\ h.kind = "secs" /\ h.n * Second \in 0 .. Limit - 1 =>
              Slept(Wait(n, h)) >= Least(h.n * Second, MaxDelay)
         /\ h.kind = "date" => Slept(Wait(n, h)) >= Least(h.n, MaxDelay)
<1>1. h.kind \in {"secs", "date", "none"} /\ h.n \in Int
  BY ProbeAssumption DEF Header, NoHeader
<1>2. h.n * Second \in Int /\ Wrap(h.n * Second) \in Int
  BY <1>1, ProbeBounds, WrapFits
<1>3. h.n * Second \in 0 .. Limit - 1 =>
        h.n >= 0 /\ Wrap(h.n * Second) = h.n * Second
  <2>1. h.n < 0 => h.n * Second < 0
    BY <1>1, ProbeBounds
  <2> QED
    BY <1>1, <1>2, <2>1, WrapFits
<1>4. \A a \in Int : Slept(Least(a, MaxDelay)) \in 0 .. MaxDelay
                     /\ Slept(Least(a, MaxDelay)) >= Least(a, MaxDelay)
  BY ProbeBounds DEF Slept, Least
<1>5. Second * 2 ^ n \in Int
  BY ProbeBounds
<1>6. CASE h.kind = "secs" /\ h.n >= 0
  <2>1. Wait(n, h) = Least(Wrap(h.n * Second), MaxDelay)
    BY <1>6 DEF Wait
  <2> QED
    BY <1>2, <1>3, <1>4, <1>6, <2>1
<1>7. CASE h.kind = "secs" /\ ~(h.n >= 0)
  <2>1. Wait(n, h) = Least(Second * 2 ^ n, MaxDelay)
    BY <1>7 DEF Wait
  <2> QED
    BY <1>3, <1>4, <1>5, <1>7, <2>1
<1>8. CASE h.kind = "date" /\ h.n > 0
  <2>1. Wait(n, h) = Least(h.n, MaxDelay)
    BY <1>8 DEF Wait
  <2> QED
    BY <1>1, <1>4, <1>8, <2>1
<1>9. CASE h.kind = "date" /\ ~(h.n > 0)
  <2>1. Wait(n, h) = 0
    BY <1>9 DEF Wait
  <2> QED
    BY <1>1, <1>9, <2>1, ProbeBounds DEF Slept, Least
<1>10. CASE h.kind = "none"
  <2>1. Wait(n, h) = Least(Second * 2 ^ n, MaxDelay)
    BY <1>10 DEF Wait
  <2> QED
    BY <1>4, <1>5, <1>10, <2>1
<1> QED
  BY <1>1, <1>6, <1>7, <1>8, <1>9, <1>10

\* The pauses a call has made, the requests of the fetch under way but the
\* first, beside those of the fetch before it.
Pauses ==
  (IF phase = "token" THEN 0 ELSE Attempts - 1)
    + (IF phase = "done" THEN Attempts - 1 ELSE IF tries = 0 THEN 0 ELSE tries - 1)

SleptBounded ==
  /\ header \in Headers \cup {NoHeader}
  /\ slept \in Nat /\ slept <= Pauses * MaxDelay

LEMMA SleptInit == Init => SleptBounded
BY ProbeBounds DEF Init, SleptBounded, Pauses

\* More pauses, a higher bound.
LEMMA MorePauses ==
  ASSUME NEW a \in Nat, NEW b \in Nat, a <= b
  PROVE  a * MaxDelay <= b * MaxDelay /\ a * MaxDelay \in Nat
         /\ b * MaxDelay \in Nat /\ (a + 1) * MaxDelay = a * MaxDelay + MaxDelay
<1>1. PICK c \in Nat : b = a + c
  BY SMT
<1>2. MaxDelay \in Nat /\ c * MaxDelay \in Nat /\ a * MaxDelay \in Nat
  BY ProbeBounds
<1>3. b * MaxDelay = a * MaxDelay + c * MaxDelay
  BY <1>1, <1>2
<1> QED
  BY <1>2, <1>3

LEMMA SleptNext == InHand /\ SleptBounded /\ [Next]_vars => SleptBounded'
<1> SUFFICES ASSUME InHand, SleptBounded, [Next]_vars PROVE SleptBounded'
  OBVIOUS
<1>1. /\ phase \in {"token", "manifest", "done"} /\ tries \in 0 .. Attempts
      /\ Attempts \in Nat /\ Attempts >= 1 /\ Pauses \in Nat
      /\ MaxDelay \in Nat /\ slept \in Nat /\ slept <= Pauses * MaxDelay
  BY ProbeBounds DEF InHand, SleptBounded, Pauses
<1>2. CASE Request
  <2>1. /\ phase # "done" /\ tries < Attempts /\ tries' = tries + 1
        /\ phase' = phase /\ slept' = slept + Pause
        /\ header' \in Headers \cup {NoHeader}
    BY <1>2 DEF Request, KeepsTrying
  <2>2. CASE tries = 0
    <3>1. Pause = 0 /\ Pauses' = Pauses
      BY <1>1, <2>1, <2>2 DEF Pause, Pauses
    <3> QED
      BY <1>1, <2>1, <3>1 DEF SleptBounded
  <2>3. CASE tries # 0
    <3>1. Pause = Slept(Wait(tries - 1, header))
      BY <2>3 DEF Pause
    <3>2. tries - 1 \in 0 .. Attempts - 2
      BY <1>1, <2>1, <2>3
    <3>3. Pause \in 0 .. MaxDelay
      BY <3>1, <3>2, PauseBounded DEF SleptBounded
    <3>4. Pauses' = Pauses + 1
      BY <1>1, <2>1, <2>3 DEF Pauses
    <3>5. Pauses' * MaxDelay = Pauses * MaxDelay + MaxDelay
          /\ Pauses * MaxDelay \in Nat
      BY <1>1, <3>4, MorePauses
    <3> QED
      BY <1>1, <2>1, <3>3, <3>5 DEF SleptBounded
  <2> QED
    BY <2>2, <2>3
<1>3. CASE NotOk \/ Undecodable \/ Token \/ Manifest
  <2>1. /\ slept' = slept /\ tries' = 0 /\ header' = NoHeader
        /\ phase # "done"
        /\ phase' = "done" \/ (phase = "token" /\ phase' = "manifest")
    BY <1>3 DEF NotOk, Undecodable, Token, Manifest, Return
  <2>2. Pauses' \in Nat /\ Pauses <= Pauses'
    BY <1>1, <2>1 DEF Pauses
  <2>3. Pauses * MaxDelay <= Pauses' * MaxDelay
        /\ Pauses * MaxDelay \in Nat /\ Pauses' * MaxDelay \in Nat
    BY <1>1, <2>2, MorePauses
  <2> QED
    BY <1>1, <2>1, <2>3 DEF SleptBounded
<1>4. CASE UNCHANGED vars
  BY <1>4 DEF vars, SleptBounded, Pauses
<1> QED
  BY <1>2, <1>3, <1>4 DEF Next, Step

LEMMA SleptHolds == Spec => [](InHand /\ SleptBounded)
BY InHandInit, InHandNext, SleptInit, SleptNext, PTL DEF Spec

\* No header, however hostile or confused, makes a whole call sleep longer than
\* the cap allows its pauses, for any attempts and delays.
THEOREM NeverParkedProven == Spec => []NeverParked
<1>1. InHand /\ SleptBounded => NeverParked
  <2> SUFFICES ASSUME InHand, SleptBounded PROVE NeverParked
    OBVIOUS
  <2> DEFINE most == 2 * (Attempts - 1)
  <2>1. Pauses \in Nat /\ most \in Nat /\ Pauses <= most
    BY ProbeBounds DEF InHand, Pauses
  <2> HIDE DEF most
  <2>2. Pauses * MaxDelay <= most * MaxDelay
        /\ Pauses * MaxDelay \in Nat /\ most * MaxDelay \in Nat
    BY <2>1, MorePauses
  <2>3. slept <= most * MaxDelay
    BY <2>2 DEF SleptBounded
  <2> QED
    BY <2>3 DEF NeverParked, most
<1> QED
  BY <1>1, SleptHolds, PTL

\* After a "not yet" no request goes out earlier than its registry asked or
\* than the cap, where the seconds it asked for fit in a Duration.
THEOREM HeaderObeyedProven == Spec => HeaderObeyed
<1> DEFINE Obeyed ==
      tries' > tries /\ last = "notYet" =>
        LET pause == slept' - slept
            asked == header.n * Second
        IN /\ header.kind = "secs" /\ asked \in 0 .. Limit - 1 =>
                pause >= Least(asked, MaxDelay)
           /\ header.kind = "date" => pause >= Least(header.n, MaxDelay)
<1>1. InHand /\ SleptBounded /\ [Next]_vars => [Obeyed]_vars
  <2> SUFFICES ASSUME InHand, SleptBounded, Next, tries' > tries,
                      last = "notYet"
               PROVE  Obeyed
    OBVIOUS
  <2>1. tries \in 0 .. Attempts /\ tries # 0 /\ slept \in Nat
        /\ Attempts \in Nat
    BY ProbeBounds DEF InHand, SleptBounded
  <2>2. Request
    <3>1. CASE NotOk \/ Undecodable \/ Token \/ Manifest
      BY <2>1, <3>1 DEF NotOk, Undecodable, Token, Manifest, Return
    <3> QED
      BY <3>1 DEF Next, Step
  <2>3. slept' = slept + Slept(Wait(tries - 1, header))
        /\ tries - 1 \in 0 .. Attempts - 2
    BY <2>1, <2>2 DEF Request, KeepsTrying, Pause
  <2>4. Slept(Wait(tries - 1, header)) \in 0 .. MaxDelay
    BY <2>3, PauseBounded DEF SleptBounded
  <2>5. slept' - slept = Slept(Wait(tries - 1, header))
    BY <2>1, <2>3, <2>4, ProbeBounds
  <2> QED
    BY <2>3, <2>5, PauseBounded DEF SleptBounded
<1> QED
  BY <1>1, SleptHolds, PTL DEF Spec, HeaderObeyed

\* Everything a call keeps has its type.
THEOREM ProbeTypeCorrect == Spec => []TypeOK
<1> DEFINE Answer == image \subseteq Entries
                     /\ result \in [err : BOOLEAN, platforms : SUBSET Entries]
<1>1. Init => Answer
  BY DEF Init, Pending
<1>2. Answer /\ [Next]_vars => Answer'
  <2> SUFFICES ASSUME Answer, [Next]_vars PROVE Answer'
    OBVIOUS
  <2>1. CASE Request
    BY <2>1 DEF Request
  <2>2. CASE NotOk \/ Undecodable \/ Token
    <3>1. image' = image /\ result' \in {Failed, Pending}
      BY <2>2 DEF NotOk, Undecodable, Token, Return
    <3>2. image \subseteq Entries
          /\ result' \in [err : BOOLEAN, platforms : SUBSET Entries]
      <4>1. Failed \in [err : BOOLEAN, platforms : SUBSET Entries]
            /\ Pending \in [err : BOOLEAN, platforms : SUBSET Entries]
        BY DEF Failed, Pending
      <4> QED
        BY <3>1, <4>1, Zenon
    <3> QED
      BY <3>1, <3>2
  <2>3. CASE Manifest
    BY <2>3 DEF Manifest, Return, Seen
  <2>4. CASE UNCHANGED vars
    BY <2>4 DEF vars
  <2> QED
    BY <2>1, <2>2, <2>3, <2>4 DEF Next, Step
<1>3. InHand /\ SleptBounded /\ Answer => TypeOK
  BY DEF InHand, SleptBounded, TypeOK
<1> QED
  BY <1>1, <1>2, <1>3, SleptHolds, PTL DEF Spec

=============================================================================
