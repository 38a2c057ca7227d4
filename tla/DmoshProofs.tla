----------------------------- MODULE DmoshProofs -----------------------------
(***************************************************************************)
(* What callers of the daemon are told, for any number of shells, checks,  *)
(* clients, calls and starts.                                              *)
(*                                                                         *)
(* The properties speak of what a caller has been told.  The invariant     *)
(* adds what it would be told by the answer that is on its way (TruthInv), *)
(* and that only clients ask for more than the daemon's health (ProbeInv). *)
(***************************************************************************)
EXTENDS Dmosh, SequenceTheorems, TLAPS

\* What may be told to the caller of a call as things stand.
Truthful(call, told) ==
    /\ told = "done" /\ Writes(call.request) => call.applied \/ ~call.dmostd
    /\ told = "refused" => ~call.applied
    /\ told = "done" /\ call.request = HealthProbe => call.dmostd \/ call.imitated

\* A call at any point of its life.
CallOK(call) ==
    /\ call.stage \in {"dialled", "handling", "reset"} => ~call.applied
    /\ call.stage = "dialled" => ~call.dmostd /\ ~call.imitated
    /\ call.stage \in {"handling", "served"} => call.dmostd
    /\ call.told \in {"done", "refused"} => call.stage = "answered"
    /\ call.stage \in {"served", "answered"} /\ call.told = "pending"
          => Truthful(call, Reads(call.request, call.answer))
    /\ Truthful(call, call.told)

TruthInv == \A k \in CallIds : CallOK(calls[k])

ProbeInv ==
    /\ \A k \in CallIds : calls[k].from \notin Client => calls[k].request = HealthProbe
    /\ HealthyMeansVouched

DmoshInv == TypeOK /\ Len(calls) <= MaxCalls /\ TruthInv /\ ProbeInv

-----------------------------------------------------------------------------
(* Answers.                                                                *)

\* A service's answer reads as "done" only if the service did it.
LEMMA ServiceAnswerTrue ==
  ASSUME NEW r \in Request, r.resource # "healthz", NEW outcome \in OutcomesOf(r)
  PROVE  /\ Reads(r, ServiceAnswer(r, outcome)) = "done" /\ Writes(r) => outcome = "ok"
         /\ Reads(r, ServiceAnswer(r, outcome)) = "refused" => ~ (Writes(r) /\ outcome = "ok")
  BY DEF Reads, ServiceAnswer, ClientReads, AcceptedStatus, SuccessStatus, Answer, Problem,
         ErrorStatus, Matches, InvalidStatus, Writes, OutcomesOf, DecodesProblem, Request, Resource

\* Without a service nothing that writes reads as "done".
LEMMA ImmediateAnswerTrue ==
  ASSUME NEW r \in Request, NEW body, ~CallsService(r, body)
  PROVE  ~ (Reads(r, ImmediateAnswer(r)) = "done" /\ Writes(r))
  BY DEF Reads, ImmediateAnswer, ClientReads, AcceptedStatus, SuccessStatus, Answer, HealthAnswer,
         Problem, Writes, Routed, Request, Healthy

\* Another program passes for the daemon's health only in the daemon's own words.
LEMMA ForeignAnswerTrue ==
  ASSUME NEW answer \in ForeignAnswers
  PROVE  Reads(HealthProbe, answer) = "done" => answer = HealthAnswer
  BY DEF ForeignAnswers, HealthAnswer, Answer, Reads, ClientReads, Healthy, HealthProbe, ClientCall

\* Answers and readings have their types.
LEMMA AnswersAreTyped ==
  /\ NoAnswer \in AnyAnswer
  /\ ForeignAnswers \subseteq AnyAnswer
  /\ \A r \in Request : ImmediateAnswer(r) \in AnyAnswer
  /\ \A r \in Request : \A outcome \in OutcomesOf(r) : ServiceAnswer(r, outcome) \in AnyAnswer
  /\ \A r \in Request : \A answer : Reads(r, answer) \in Told \ {"pending"}
<1>1. NoAnswer \in AnyAnswer /\ ForeignAnswers \subseteq AnyAnswer
  BY DEF NoAnswer, Answer, HealthAnswer, AnyAnswer, ForeignAnswers, Resource
<1>2. \A r \in Request : ImmediateAnswer(r) \in AnyAnswer
  BY DEF ImmediateAnswer, Answer, HealthAnswer, AnyAnswer, Problem, Resource
<1>3. \A r \in Request : \A outcome \in OutcomesOf(r) : ServiceAnswer(r, outcome) \in AnyAnswer
  BY DEF ServiceAnswer, Answer, AnyAnswer, Problem, Resource, Request, SuccessStatus, ErrorStatus,
         InvalidStatus
<1>4. \A r \in Request : \A answer : Reads(r, answer) \in Told \ {"pending"}
  BY DEF Reads, ClientReads, Told
<1> QED BY <1>1, <1>2, <1>3, <1>4

-----------------------------------------------------------------------------
(* One call moving on.                                                     *)

\* What a step may do to a call.
Advances(before, after) ==
    /\ after \in Call
    /\ CallOK(after)
    /\ after.from = before.from
    /\ after.request = before.request
    /\ before.stage = "answered" => after.stage = "answered"
    /\ before.dmostd => after.dmostd
    /\ before.imitated => after.imitated

\* A call that is left alone.
LEMMA StandsStill ==
  ASSUME NEW call \in Call, CallOK(call)
  PROVE  Advances(call, call)
  BY DEF Advances

\* The *Fields lemmas: what each way of moving on sets, and what it leaves alone.
LEMMA InformedFields ==
  ASSUME NEW call \in Call, NEW told \in Told
  PROVE  LET after == Informed(call, told)
         IN  /\ after \in Call
             /\ after.from = call.from
             /\ after.request = call.request
             /\ after.stage = call.stage
             /\ after.told = told
             /\ after.applied = call.applied
             /\ after.dmostd = call.dmostd
             /\ after.imitated = call.imitated
<1>1. NoAnswer \in AnyAnswer
  BY AnswersAreTyped
<1> QED
  BY <1>1, Zenon DEF Call, Informed

\* What accepting a call changes of it.
LEMMA AcceptedFields ==
  ASSUME NEW call \in Call
  PROVE  LET after == Accepted(call)
         IN  /\ after \in Call
             /\ after.from = call.from
             /\ after.request = call.request
             /\ after.stage = "handling"
             /\ after.told = call.told
             /\ after.applied = call.applied
             /\ after.dmostd = TRUE
             /\ after.imitated = call.imitated
<1>1. "handling" \in Stage
  BY DEF Stage
<1> QED
  BY <1>1, Zenon DEF Call, Accepted

\* What serving a call changes of it.
LEMMA ServedFields ==
  ASSUME NEW call \in Call, NEW answer \in AnyAnswer, NEW applied \in BOOLEAN
  PROVE  LET after == Served(call, answer, applied)
         IN  /\ after \in Call
             /\ after.from = call.from
             /\ after.request = call.request
             /\ after.stage = "served"
             /\ after.told = call.told
             /\ after.applied = applied
             /\ after.dmostd = call.dmostd
             /\ after.imitated = call.imitated
             /\ call.told = "pending" => after.answer = answer
<1> DEFINE kept == IF call.told = "pending" THEN answer ELSE NoAnswer
<1>1. "served" \in Stage
  BY DEF Stage
<1>2. kept \in AnyAnswer
  BY AnswersAreTyped
<1> QED
  BY <1>1, <1>2, Zenon DEF Call, Served

\* What moving a call to another stage changes of it.
LEMMA MovedFields ==
  ASSUME NEW call \in Call, NEW stage \in Stage
  PROVE  LET after == Moved(call, stage)
         IN  /\ after \in Call
             /\ after.from = call.from
             /\ after.request = call.request
             /\ after.stage = stage
             /\ after.told = call.told
             /\ after.applied = call.applied
             /\ after.dmostd = call.dmostd
             /\ after.imitated = call.imitated
             /\ after.answer = call.answer
  BY Zenon DEF Call, Moved

\* What receiving an answer changes of a call.
LEMMA ClaimedFields ==
  ASSUME NEW call \in Call, NEW answer \in AnyAnswer
  PROVE  LET after == Claimed(call, answer)
         IN  /\ after \in Call
             /\ after.from = call.from
             /\ after.request = call.request
             /\ after.stage = "answered"
             /\ after.told = call.told
             /\ after.applied = call.applied
             /\ after.dmostd = call.dmostd
             /\ after.imitated = (call.request = HealthProbe /\ answer = HealthAnswer)
             /\ after.answer = answer
<1> DEFINE imitated == call.request = HealthProbe /\ answer = HealthAnswer
<1>1. "answered" \in Stage
  BY DEF Stage
<1>2. imitated \in BOOLEAN
  OBVIOUS
<1>3. Claimed(call, answer) = [call EXCEPT !.stage = "answered", !.answer = answer,
                                           !.imitated = imitated]
  BY Zenon DEF Claimed
<1> HIDE DEF imitated
<1>4. LET after == Claimed(call, answer)
      IN  /\ after \in Call
          /\ after.from = call.from
          /\ after.request = call.request
          /\ after.stage = "answered"
          /\ after.told = call.told
          /\ after.applied = call.applied
          /\ after.dmostd = call.dmostd
          /\ after.imitated = imitated
          /\ after.answer = answer
  BY <1>1, <1>2, <1>3, Zenon DEF Call
<1> QED
  BY <1>4, Zenon DEF imitated

\* The caller is told what the answer says, or nothing.
LEMMA InformedAdvances ==
  ASSUME NEW call \in Call, CallOK(call), NEW told \in Told \ {"pending"},
         told # "unknown" => /\ call.stage = "answered" /\ call.told = "pending"
                             /\ told = Reads(call.request, call.answer)
  PROVE  Advances(call, Informed(call, told))
<1> DEFINE after == Informed(call, told)
<1>1. /\ after \in Call
      /\ after.from = call.from
      /\ after.request = call.request
      /\ after.stage = call.stage
      /\ after.told = told
      /\ after.applied = call.applied
      /\ after.dmostd = call.dmostd
      /\ after.imitated = call.imitated
  BY InformedFields
<1>2. Truthful(call, told)
  BY DEF CallOK, Truthful
<1>3. Truthful(after, told)
  BY <1>1, <1>2 DEF Truthful
<1> HIDE DEF after
<1>4. CallOK(after)
  BY <1>1, <1>3 DEF CallOK, Told
<1> QED
  BY <1>1, <1>4 DEF Advances, after

\* A handler has it, and has done nothing yet.
LEMMA AcceptedAdvances ==
  ASSUME NEW call \in Call, CallOK(call), call.stage = "dialled"
  PROVE  Advances(call, Accepted(call))
<1> DEFINE after == Accepted(call)
<1>1. /\ after \in Call
      /\ after.from = call.from
      /\ after.request = call.request
      /\ after.stage = "handling"
      /\ after.told = call.told
      /\ after.applied = call.applied
      /\ after.dmostd = TRUE
      /\ after.imitated = call.imitated
  BY AcceptedFields
<1> HIDE DEF after
<1>2. CallOK(after)
  BY <1>1 DEF CallOK, Truthful
<1> QED
  BY <1>1, <1>2 DEF Advances, after

\* The handler's answer would tell the truth.
LEMMA ServedAdvances ==
  ASSUME NEW call \in Call, CallOK(call), call.stage = "handling",
         NEW answer \in AnyAnswer, NEW applied \in BOOLEAN,
         Reads(call.request, answer) = "done" /\ Writes(call.request) => applied,
         Reads(call.request, answer) = "refused" => ~applied
  PROVE  Advances(call, Served(call, answer, applied))
<1> DEFINE after == Served(call, answer, applied)
<1>1. /\ after \in Call
      /\ after.from = call.from
      /\ after.request = call.request
      /\ after.stage = "served"
      /\ after.told = call.told
      /\ after.applied = applied
      /\ after.dmostd = call.dmostd
      /\ after.imitated = call.imitated
      /\ call.told = "pending" => after.answer = answer
  BY ServedFields
<1> HIDE DEF after
<1>2. CallOK(after)
  BY <1>1 DEF CallOK, Truthful
<1> QED
  BY <1>1, <1>2 DEF Advances, after

\* An answer is on its way, or its connection breaks.
LEMMA MovedAdvances ==
  ASSUME NEW call \in Call, CallOK(call),
         NEW stage \in {"answered", "reset", "cut"},
         stage = "answered" => call.stage = "served",
         stage = "reset" => call.stage = "dialled",
         stage = "cut" => call.stage \in {"handling", "served"}
  PROVE  Advances(call, Moved(call, stage))
<1> DEFINE after == Moved(call, stage)
<1>1. /\ after \in Call
      /\ after.from = call.from
      /\ after.request = call.request
      /\ after.stage = stage
      /\ after.told = call.told
      /\ after.applied = call.applied
      /\ after.dmostd = call.dmostd
      /\ after.imitated = call.imitated
      /\ after.answer = call.answer
  BY MovedFields DEF Stage
<1> HIDE DEF after
<1>2. CallOK(after)
  BY <1>1 DEF CallOK, Truthful
<1> QED
  BY <1>1, <1>2 DEF Advances, after

\* Another program answers: a prober takes that for health only if it is imitated.
LEMMA ClaimedAdvances ==
  ASSUME NEW call \in Call, CallOK(call), call.stage = "dialled", NEW answer \in ForeignAnswers
  PROVE  Advances(call, Claimed(call, answer))
<1> DEFINE after == Claimed(call, answer)
<1>1. /\ after \in Call
      /\ after.from = call.from
      /\ after.request = call.request
      /\ after.stage = "answered"
      /\ after.told = call.told
      /\ after.applied = call.applied
      /\ after.dmostd = call.dmostd
      /\ after.imitated = (call.request = HealthProbe /\ answer = HealthAnswer)
      /\ after.answer = answer
  BY ClaimedFields, AnswersAreTyped
<1>2. Reads(HealthProbe, answer) = "done" => answer = HealthAnswer
  BY ForeignAnswerTrue
<1> HIDE DEF after
<1>3. CallOK(after)
  BY <1>1, <1>2 DEF CallOK, Truthful
<1>4. ~call.imitated
  BY DEF CallOK
<1> QED
  BY <1>1, <1>3, <1>4 DEF Advances, after

-----------------------------------------------------------------------------
(* The calls moving on.                                                    *)

\* No call is forgotten, those there are advance, and a new one is as it should be.
Progress ==
    /\ calls' \in Seq(Call)
    /\ Len(calls') <= MaxCalls
    /\ CallIds \subseteq CallIds'
    /\ \A k \in CallIds : Advances(calls[k], calls'[k])
    /\ \A k \in CallIds' \ CallIds :
          CallOK(calls'[k]) /\ (calls'[k].from \notin Client => calls'[k].request = HealthProbe)

\* What the invariant says of the sequence of calls.
LEMMA CallsAreTyped ==
  ASSUME DmoshInv
  PROVE  /\ calls \in Seq(Call)
         /\ Len(calls) \in Nat
         /\ CallIds = 1 .. Len(calls)
         /\ \A k \in CallIds : calls[k] \in Call /\ CallOK(calls[k])
<1>1. calls \in Seq(Call)
  BY DEF DmoshInv, TypeOK, DaemonTypeOK
<1>2. /\ Len(calls) \in Nat
      /\ calls \in [1 .. Len(calls) -> Call]
      /\ DOMAIN calls = 1 .. Len(calls)
  BY <1>1, LenProperties
<1> QED
  BY <1>1, <1>2 DEF CallIds, DmoshInv, TruthInv

\* Calls that no step touches have advanced.
LEMMA StutterProgresses ==
  ASSUME DmoshInv, UNCHANGED calls
  PROVE  Progress
<1>1. CallIds' = CallIds
  BY DEF CallIds
<1>2. \A k \in CallIds : Advances(calls[k], calls[k])
  BY CallsAreTyped, StandsStill
<1>3. Len(calls) <= MaxCalls
  BY DEF DmoshInv
<1> QED
  BY <1>1, <1>2, <1>3, CallsAreTyped DEF Progress

\* One call moves on, the others are left alone.
LEMMA OneCallProgresses ==
  ASSUME DmoshInv, NEW k \in CallIds, NEW after, Advances(calls[k], after),
         calls' = [calls EXCEPT ![k] = after]
  PROVE  Progress
<1>1. /\ calls \in Seq(Call)
      /\ k \in 1 .. Len(calls)
      /\ after \in Call
      /\ CallIds = 1 .. Len(calls)
      /\ Len(calls) \in Nat
  BY CallsAreTyped DEF Advances
<1>2. /\ calls' \in Seq(Call)
      /\ Len(calls') = Len(calls)
      /\ \A j \in 1 .. Len(calls) : calls'[j] = IF j = k THEN after ELSE calls[j]
  BY <1>1, ExceptSeq
<1>3. CallIds' = CallIds
  BY <1>1, <1>2, LenProperties DEF CallIds
<1>4. \A j \in CallIds : Advances(calls[j], calls'[j])
  BY <1>1, <1>2, CallsAreTyped, StandsStill
<1>5. Len(calls') <= MaxCalls
  BY <1>2 DEF DmoshInv
<1> QED
  BY <1>2, <1>3, <1>4, <1>5 DEF Progress

\* Broken connections advance the calls they cut.
LEMMA BreakProgresses ==
  ASSUME DmoshInv, NEW stages \in SUBSET {"dialled", "handling", "served"}, BreakCalls(stages)
  PROVE  Progress
<1> DEFINE after(k) == IF calls[k].stage \in stages
                       THEN Moved(calls[k], IF calls[k].stage = "dialled" THEN "reset" ELSE "cut")
                       ELSE calls[k]
<1>1. calls' = [k \in CallIds |-> after(k)]
  BY DEF BreakCalls
<1>2. /\ CallIds = 1 .. Len(calls)
      /\ Len(calls) \in Nat
  BY CallsAreTyped
<1>3. \A k \in CallIds : Advances(calls[k], after(k))
  <2> SUFFICES ASSUME NEW k \in CallIds
               PROVE  Advances(calls[k], after(k))
    OBVIOUS
  <2>1. calls[k] \in Call /\ CallOK(calls[k])
    BY CallsAreTyped
  <2>2. CASE calls[k].stage \notin stages
    BY <2>1, <2>2, StandsStill
  <2>3. CASE calls[k].stage \in stages /\ calls[k].stage = "dialled"
    <3>1. Advances(calls[k], Moved(calls[k], "reset"))
      BY <2>1, <2>3, MovedAdvances
    <3> QED BY <2>3, <3>1
  <2>4. CASE calls[k].stage \in stages /\ calls[k].stage # "dialled"
    <3>1. calls[k].stage \in {"handling", "served"}
      BY <2>4
    <3>2. Advances(calls[k], Moved(calls[k], "cut"))
      BY <2>1, <3>1, MovedAdvances
    <3> QED BY <2>4, <3>2
  <2> QED BY <2>2, <2>3, <2>4
<1>4. \A k \in CallIds : calls'[k] = after(k)
  BY <1>1
<1>5. \A k \in CallIds : Advances(calls[k], calls'[k])
  BY <1>3, <1>4
<1>6. calls' \in Seq(Call) /\ Len(calls') = Len(calls)
  <2>1. calls' = [k \in 1 .. Len(calls) |-> after(k)]
    BY <1>1, <1>2
  <2>2. \A k \in 1 .. Len(calls) : after(k) \in Call
    BY <1>2, <1>3 DEF Advances
  <2> HIDE DEF after
  <2> QED BY <1>2, <2>1, <2>2, IsASeq
<1>7. CallIds' = CallIds
  BY <1>1 DEF CallIds
<1>8. Len(calls') <= MaxCalls
  BY <1>6 DEF DmoshInv
<1> QED
  BY <1>5, <1>6, <1>7, <1>8 DEF Progress

\* A new call joins the others, truthfully.
LEMMA DialProgresses ==
  ASSUME DmoshInv, NEW from \in Caller, NEW request \in Request,
         from \notin Client => request = HealthProbe, Dial(from, request)
  PROVE  Progress
<1> DEFINE new == NewCall(from, request)
<1>1. new \in Call
  BY AnswersAreTyped DEF NewCall, Call, Stage, Told
<1>2. CallOK(new) /\ new.from = from /\ new.request = request
  BY DEF NewCall, CallOK, Truthful
<1> HIDE DEF new
<1>3. /\ calls \in Seq(Call)
      /\ CallIds = 1 .. Len(calls)
      /\ Len(calls) \in Nat
      /\ Len(calls) < MaxCalls
      /\ calls' = Append(calls, new)
  BY CallsAreTyped DEF Dial, new
<1>4. /\ calls' \in Seq(Call)
      /\ Len(calls') = Len(calls) + 1
      /\ \A k \in 1 .. Len(calls) : calls'[k] = calls[k]
      /\ calls'[Len(calls) + 1] = new
  BY <1>1, <1>3, AppendProperties
<1>5. CallIds' = 1 .. (Len(calls) + 1)
  BY <1>4, LenProperties DEF CallIds
<1>6. CallIds \subseteq CallIds' /\ CallIds' \ CallIds \subseteq {Len(calls) + 1}
  BY <1>3, <1>5
<1>7. \A k \in CallIds : Advances(calls[k], calls'[k])
  BY <1>3, <1>4, CallsAreTyped, StandsStill
<1>8. Len(calls') <= MaxCalls
  BY <1>3, <1>4, DmostdAssumption
<1>9. \A k \in CallIds' \ CallIds :
          CallOK(calls'[k]) /\ (calls'[k].from \notin Client => calls'[k].request = HealthProbe)
  BY <1>2, <1>4, <1>6
<1> QED
  BY <1>4, <1>6, <1>7, <1>8, <1>9 DEF Progress

-----------------------------------------------------------------------------
(* The steps.                                                              *)

\* What becomes of the daemon's own variables.
DaemonMoves ==
    /\ daemon' \in Daemon
    /\ exit' \in Exit
    /\ starts' \in 0 .. MaxStarts
    /\ foreign' \in BOOLEAN

\* The handler's answer, with or without a service, tells the truth.
LEMMA HandleProgresses ==
  ASSUME DmoshInv, NEW k \in CallIds, Handle(k)
  PROVE  Progress
<1> DEFINE call == calls[k]
<1> DEFINE r == call.request
<1>1. /\ call \in Call
      /\ CallOK(call)
      /\ call.stage = "handling"
      /\ r \in Request
  BY CallsAreTyped DEF Handle, Call
<1>2. PICK body \in ReadBody(call) :
          \/ /\ ~CallsService(r, body)
             /\ Serves(k, ImmediateAnswer(r), FALSE)
          \/ /\ CallsService(r, body)
             /\ \E outcome \in OutcomesOf(r) :
                   Serves(k, ServiceAnswer(r, outcome), Writes(r) /\ outcome = "ok")
  BY Zenon DEF Handle
<1> HIDE DEF call, r
<1>3. CASE ~CallsService(r, body) /\ Serves(k, ImmediateAnswer(r), FALSE)
  <2>1. ImmediateAnswer(r) \in AnyAnswer
    BY <1>1, AnswersAreTyped
  <2>2. Advances(call, Served(call, ImmediateAnswer(r), FALSE))
    BY <1>1, <1>3, <2>1, ImmediateAnswerTrue, ServedAdvances DEF r
  <2>3. calls' = [calls EXCEPT ![k] = Served(call, ImmediateAnswer(r), FALSE)]
    BY <1>3 DEF Serves, call
  <2> QED
    BY <2>2, <2>3, OneCallProgresses DEF call
<1>4. ASSUME CallsService(r, body), NEW outcome \in OutcomesOf(r),
             Serves(k, ServiceAnswer(r, outcome), Writes(r) /\ outcome = "ok")
      PROVE  Progress
  <2> DEFINE answer == ServiceAnswer(r, outcome)
  <2> DEFINE applied == Writes(r) /\ outcome = "ok"
  <2>1. answer \in AnyAnswer
    BY <1>1, AnswersAreTyped
  <2>2. applied \in BOOLEAN
    BY DEF Writes
  <2>3. r.resource # "healthz"
    BY <1>4 DEF CallsService
  <2>4. /\ Reads(r, answer) = "done" /\ Writes(r) => applied
        /\ Reads(r, answer) = "refused" => ~applied
    BY <1>1, <2>3, ServiceAnswerTrue
  <2>5. calls' = [calls EXCEPT ![k] = Served(call, answer, applied)]
    BY <1>4 DEF Serves, call
  <2> HIDE DEF answer, applied
  <2>6. Advances(call, Served(call, answer, applied))
    BY <1>1, <2>1, <2>2, <2>4, ServedAdvances DEF r
  <2> QED
    BY <2>5, <2>6, OneCallProgresses DEF call
<1> QED
  BY <1>2, <1>3, <1>4

\* A handler's steps advance its call.
LEMMA ServingProgresses ==
  ASSUME DmoshInv, NEW k \in CallIds, Serving(k)
  PROVE  Progress
<1>1. calls[k] \in Call /\ CallOK(calls[k])
  BY CallsAreTyped
<1>2. CASE Accept(k)
  <2>1. Advances(calls[k], Accepted(calls[k]))
    BY <1>1, <1>2, AcceptedAdvances DEF Accept
  <2> QED BY <1>2, <2>1, OneCallProgresses DEF Accept
<1>3. CASE Handle(k)
  BY <1>3, HandleProgresses
<1>4. CASE Respond(k)
  <2>1. Advances(calls[k], Moved(calls[k], "answered"))
    BY <1>1, <1>4, MovedAdvances DEF Respond
  <2> QED BY <1>4, <2>1, OneCallProgresses DEF Respond
<1> QED
  BY <1>2, <1>3, <1>4 DEF Serving

\* Telling a caller what the answer says, or that nothing is known, advances the call.
LEMMA TellProgresses ==
  ASSUME DmoshInv, NEW k \in CallIds, NEW told \in Told \ {"pending"}, Tell(k, told),
         told # "unknown" => /\ calls[k].stage = "answered" /\ calls[k].told = "pending"
                             /\ told = Reads(calls[k].request, calls[k].answer)
  PROVE  Progress
<1>1. Advances(calls[k], Informed(calls[k], told))
  BY CallsAreTyped, InformedAdvances
<1> QED
  BY <1>1, OneCallProgresses DEF Tell

\* An answer received, a broken connection and a context that is done advance the call.
LEMMA NetworkProgresses ==
  ASSUME DmoshInv, NEW k \in CallIds, Network(k)
  PROVE  Progress
<1>1. calls[k] \in Call /\ CallOK(calls[k]) /\ calls[k].request \in Request
  BY CallsAreTyped DEF Call
<1>2. CASE Receive(k)
  <2>1. Reads(calls[k].request, calls[k].answer) \in Told \ {"pending"}
    BY <1>1, AnswersAreTyped
  <2> QED BY <1>2, <2>1, TellProgresses DEF Receive
<1>3. CASE Break(k)
  BY <1>3, TellProgresses DEF Break, Told
<1>4. CASE Cancel(k)
  BY <1>4, TellProgresses DEF Cancel, Told
<1>5. CASE AnswerForeign(k)
  <2>1. PICK answer \in ForeignAnswers : calls' = [calls EXCEPT ![k] = Claimed(calls[k], answer)]
    BY <1>5 DEF AnswerForeign
  <2>2. Advances(calls[k], Claimed(calls[k], answer))
    BY <1>1, <1>5, ClaimedAdvances DEF AnswerForeign
  <2> QED BY <2>1, <2>2, OneCallProgresses
<1> QED
  BY <1>2, <1>3, <1>4, <1>5 DEF Network

\* The daemon's own steps, and those of another program on its port, advance every call.
LEMMA ProcessProgresses ==
  ASSUME DmoshInv, Process \/ Occupy \/ Vacate
  PROVE  Progress
<1>1. CASE Start \/ Serve \/ Occupy
  BY <1>1, StutterProgresses DEF Start, Serve, Occupy
<1>2. CASE Deafen \/ Close \/ Vacate
  BY <1>2, BreakProgresses DEF Deafen, Close, Vacate
<1>3. CASE Drained \/ GiveUp \/ Kill
  <2>1. BreakCalls({"dialled", "handling", "served"})
    BY <1>3 DEF Drained, GiveUp, Kill, Terminate
  <2> QED BY <2>1, BreakProgresses
<1> QED
  BY <1>1, <1>2, <1>3 DEF Process

\* The daemon's own state stays of its type.
LEMMA DaemonStaysTyped ==
  ASSUME DaemonTypeOK, DaemonNext
  PROVE  DaemonMoves
<1>1. daemon \in Daemon /\ exit \in Exit /\ starts \in 0 .. MaxStarts /\ foreign \in BOOLEAN
  BY DEF DaemonTypeOK
<1>2. CASE Process
  BY <1>1, <1>2, DmostdAssumption
  DEF Process, Start, Serve, Deafen, Close, Drained, GiveUp, Kill, Terminate, ExitStatus,
      DaemonMoves, Daemon, Exit
<1>3. CASE Occupy \/ Vacate
  BY <1>1, <1>3 DEF Occupy, Vacate, DaemonMoves
<1>4. CASE \E k \in CallIds : Serving(k) \/ Network(k)
  <2>1. UNCHANGED <<daemon, exit, starts, foreign>>
    BY <1>4 DEF Serving, Accept, Handle, Respond, Network, Receive, Break, Cancel, AnswerForeign
  <2> QED BY <1>1, <2>1 DEF DaemonMoves
<1> QED
  BY <1>2, <1>3, <1>4 DEF DaemonNext

\* Every step of the daemon and the network advances the calls.
LEMMA DaemonProgresses ==
  ASSUME DmoshInv, DaemonNext
  PROVE  Progress
  BY ProcessProgresses, ServingProgresses, NetworkProgresses DEF DaemonNext

\* The invariant of the calls survives any step that makes progress.
LEMMA ProgressKeeps ==
  ASSUME DmoshInv, Progress
  PROVE  /\ calls' \in Seq(Call)
         /\ Len(calls') <= MaxCalls
         /\ TruthInv'
         /\ CallIds \subseteq CallIds'
         /\ \A k \in CallIds' : calls'[k].from \notin Client => calls'[k].request = HealthProbe
         /\ \A k \in CallIds, c \in Caller : Vouched(calls[k], c) => Vouched(calls'[k], c)
<1>1. \A k \in CallIds' : CallOK(calls'[k])
  BY DEF Progress, Advances
<1>2. \A k \in CallIds' : calls'[k].from \notin Client => calls'[k].request = HealthProbe
  BY DEF Progress, Advances, DmoshInv, ProbeInv
<1>3. TruthInv'
  BY <1>1 DEF TruthInv
<1>4. \A k \in CallIds, c \in Caller : Vouched(calls[k], c) => Vouched(calls'[k], c)
  BY DEF Progress, Advances, Vouched
<1> QED
  BY <1>2, <1>3, <1>4 DEF Progress

-----------------------------------------------------------------------------
(* The invariant.                                                          *)

LEMMA InitInv ==
  ASSUME Init
  PROVE  DmoshInv
<1>1. calls = <<>> /\ Len(calls) = 0 /\ calls \in Seq(Call) /\ CallIds = {}
  BY DEF Init, DaemonInit, CallIds
<1>2. TypeOK
  <2>1. DaemonTypeOK
    <3>1. daemon \in Daemon /\ exit \in Exit /\ foreign \in BOOLEAN
      BY DEF Init, DaemonInit, Daemon, Exit
    <3>2. starts \in 0 .. MaxStarts
      BY DmostdAssumption DEF Init, DaemonInit
    <3> QED BY <1>1, <3>1, <3>2 DEF DaemonTypeOK
  <2>2. /\ screen \in [Shell -> {"unopened", "open", "left"}]
        /\ conn \in [Shell -> Connection]
        /\ shows \in [Shell -> 0 .. MaxCalls]
        /\ code \in [Command -> {"unborn", "running", "0", "1"}]
    BY DmostdAssumption DEF Init, Connection
  <2>3. read \subseteq CallIds
    BY DEF Init
  <2> QED BY <2>1, <2>2, <2>3 DEF TypeOK
<1>3. TruthInv
  BY <1>1 DEF TruthInv
<1>4. ProbeInv
  BY <1>1 DEF ProbeInv, HealthyMeansVouched, Init
<1> QED
  BY <1>1, <1>2, <1>3, <1>4, DmostdAssumption DEF DmoshInv

\* What becomes of the variables of shells and commands, given the calls.
ShellMoves ==
    /\ screen' \in [Shell -> {"unopened", "open", "left"}]
    /\ conn' \in [Shell -> Connection]
    /\ shows' \in [Shell -> 0 .. MaxCalls]
    /\ read' \subseteq CallIds'
    /\ code' \in [Command -> {"unborn", "running", "0", "1"}]
    /\ HealthyMeansVouched'

\* What shells and commands have learnt stays true as the calls advance.
LEMMA LearntStays ==
  ASSUME DmoshInv, Progress, read \subseteq read',
         \A s \in Shell : conn'[s] = "connected" => conn[s] = "connected" /\ shows'[s] = shows[s],
         \A m \in Command : code'[m] = "0" => code[m] = "0"
  PROVE  HealthyMeansVouched'
<1>1. \A k \in CallIds, c \in Caller : Vouched(calls[k], c) => Vouched(calls'[k], c)
  BY ProgressKeeps
<1>2. read \subseteq CallIds /\ HealthyMeansVouched
  BY DEF DmoshInv, TypeOK, ProbeInv
<1>3. ASSUME NEW s \in Shell, conn'[s] = "connected"
      PROVE  shows'[s] \in read' /\ Vouched(calls'[shows'[s]], s)
  <2>1. shows'[s] = shows[s] /\ shows[s] \in read /\ Vouched(calls[shows[s]], s)
    BY <1>2, <1>3 DEF HealthyMeansVouched
  <2>2. s \in Caller
    BY DmoshAssumption
  <2> QED BY <1>1, <1>2, <2>1, <2>2
<1>4. ASSUME NEW m \in Command, code'[m] = "0"
      PROVE  \E k \in read' : Vouched(calls'[k], m)
  <2>1. PICK k \in read : Vouched(calls[k], m)
    BY <1>2, <1>4 DEF HealthyMeansVouched
  <2>2. m \in Caller
    BY DmoshAssumption
  <2> QED BY <1>1, <1>2, <2>1, <2>2
<1> QED
  BY <1>3, <1>4 DEF HealthyMeansVouched

\* Calls that advance, a typed daemon and shells in order make the invariant again.
LEMMA MovesKeepInv ==
  ASSUME DmoshInv, Progress, DaemonMoves, ShellMoves
  PROVE  DmoshInv'
  BY ProgressKeeps
  DEF DmoshInv, TypeOK, DaemonTypeOK, DaemonMoves, ShellMoves, ProbeInv

\* Shells and commands that do not move stay in order.
LEMMA ShellsStandStill ==
  ASSUME DmoshInv, Progress, UNCHANGED shellVars
  PROVE  ShellMoves
<1>1. CallIds \subseteq CallIds'
  BY ProgressKeeps
<1>2. /\ screen' = screen /\ conn' = conn /\ shows' = shows
      /\ read' = read /\ code' = code
  BY DEF shellVars
<1>3. /\ screen' \in [Shell -> {"unopened", "open", "left"}]
      /\ conn' \in [Shell -> Connection]
      /\ shows' \in [Shell -> 0 .. MaxCalls]
      /\ read' \subseteq CallIds'
      /\ code' \in [Command -> {"unborn", "running", "0", "1"}]
  BY <1>1, <1>2 DEF DmoshInv, TypeOK
<1> QED
  BY <1>2, <1>3, LearntStays DEF ShellMoves

\* A daemon that does not move stays of its type.
LEMMA DaemonStandsStill ==
  ASSUME DmoshInv, UNCHANGED <<daemon, exit, starts, foreign>>
  PROVE  DaemonMoves
  BY DEF DmoshInv, TypeOK, DaemonTypeOK, DaemonMoves

\* A message that says "done" to a prober is vouched for.
LEMMA ProbeTold ==
  ASSUME DmoshInv, NEW k \in CallIds, calls[k].from \in Shell \cup Command
  PROVE  calls[k].told = "done" => Vouched(calls[k], calls[k].from)
<1>1. calls[k].request = HealthProbe
  BY DmoshAssumption DEF DmoshInv, ProbeInv
<1>2. /\ Truthful(calls[k], calls[k].told)
      /\ calls[k].told = "done" => calls[k].stage = "answered"
  BY DEF DmoshInv, TruthInv, CallOK
<1> QED
  BY <1>1, <1>2 DEF Truthful, Vouched

\* A new probe advances the calls and leaves the daemon alone.
LEMMA ProbeProgresses ==
  ASSUME DmoshInv, NEW prober \in Shell \cup Command, Probe(prober)
  PROVE  Progress /\ DaemonMoves
<1>1. HealthProbe \in Request
  BY DEF HealthProbe, ClientCall, Request, Method, Resource, Extension, Body, NoMethod
<1>2. prober \in Caller
  BY DmoshAssumption
<1>3. Progress
  BY <1>1, <1>2, DialProgresses DEF Probe
<1>4. DaemonMoves
  BY DaemonStandsStill DEF Probe, Dial
<1> QED
  BY <1>3, <1>4

\* A step of a shell keeps the invariant.
LEMMA ShellStepInv ==
  ASSUME DmoshInv, NEW s \in Shell,
         Open(s) \/ Reload(s) \/ Quit(s) \/ \E k \in CallIds : Update(s, k)
  PROVE  DmoshInv'
<1> USE DEF shellVars
<1>1. CASE Open(s)
  <2>1. Progress /\ DaemonMoves
    BY <1>1, ProbeProgresses DEF Open
  <2>2. /\ UNCHANGED <<conn, shows, read, code>>
        /\ screen' = [screen EXCEPT ![s] = "open"]
        /\ CallIds \subseteq CallIds'
    BY <1>1, <2>1, ProgressKeeps DEF Open
  <2>3. /\ screen' \in [Shell -> {"unopened", "open", "left"}]
        /\ conn' \in [Shell -> Connection]
        /\ shows' \in [Shell -> 0 .. MaxCalls]
        /\ read' \subseteq CallIds'
        /\ code' \in [Command -> {"unborn", "running", "0", "1"}]
    BY <2>2 DEF DmoshInv, TypeOK
  <2>4. ShellMoves
    BY <2>1, <2>2, <2>3, LearntStays DEF ShellMoves
  <2> QED BY <2>1, <2>4, MovesKeepInv
<1>2. CASE Reload(s)
  <2>1. Progress /\ DaemonMoves
    BY <1>2, ProbeProgresses DEF Reload
  <2>2. /\ UNCHANGED <<screen, read, code>>
        /\ conn' = [conn EXCEPT ![s] = "connecting"]
        /\ shows' = [shows EXCEPT ![s] = 0]
    BY <1>2 DEF Reload
  <2>3. conn' \in [Shell -> Connection] /\ shows' \in [Shell -> 0 .. MaxCalls]
    BY <2>2, DmostdAssumption DEF DmoshInv, TypeOK, Connection
  <2>4. /\ screen' \in [Shell -> {"unopened", "open", "left"}]
        /\ read' \subseteq CallIds'
        /\ code' \in [Command -> {"unborn", "running", "0", "1"}]
    BY <2>1, <2>2, ProgressKeeps DEF DmoshInv, TypeOK
  <2>5. \A t \in Shell :
            conn'[t] = "connected" => conn[t] = "connected" /\ shows'[t] = shows[t]
    BY <2>2 DEF DmoshInv, TypeOK
  <2>6. ShellMoves
    BY <2>1, <2>2, <2>3, <2>4, <2>5, LearntStays DEF ShellMoves
  <2> QED BY <2>1, <2>6, MovesKeepInv
<1>3. CASE Quit(s)
  <2>1. Progress /\ DaemonMoves
    BY <1>3, StutterProgresses, DaemonStandsStill DEF Quit, daemonVars
  <2>2. /\ UNCHANGED <<conn, shows, read, code>>
        /\ screen' = [screen EXCEPT ![s] = "left"]
        /\ CallIds \subseteq CallIds'
    BY <1>3, <2>1, ProgressKeeps DEF Quit
  <2>3. /\ screen' \in [Shell -> {"unopened", "open", "left"}]
        /\ conn' \in [Shell -> Connection]
        /\ shows' \in [Shell -> 0 .. MaxCalls]
        /\ read' \subseteq CallIds'
        /\ code' \in [Command -> {"unborn", "running", "0", "1"}]
    BY <2>2 DEF DmoshInv, TypeOK
  <2>4. ShellMoves
    BY <2>1, <2>2, <2>3, LearntStays DEF ShellMoves
  <2> QED BY <2>1, <2>4, MovesKeepInv
<1>4. ASSUME NEW k \in CallIds, Update(s, k)
      PROVE  DmoshInv'
  <2>1. Progress /\ DaemonMoves
    BY <1>4, StutterProgresses, DaemonStandsStill DEF Update, daemonVars
  <2>2. calls[k].told = "done" => Vouched(calls[k], s)
    BY <1>4, ProbeTold DEF Update
  <2>3. k \in 0 .. MaxCalls
    BY CallsAreTyped, DmostdAssumption DEF DmoshInv
  <2>4. /\ UNCHANGED <<calls, screen, code>>
        /\ read' = read \cup {k}
        /\ conn' = [conn EXCEPT ![s] = Learned(calls[k].told)]
        /\ shows' = [shows EXCEPT ![s] = k]
    BY <1>4 DEF Update, daemonVars
  <2>5. /\ Learned(calls[k].told) \in Connection
        /\ Learned(calls[k].told) = "connected" => Vouched(calls[k], s)
    BY <2>2 DEF Learned, Connection
  <2>6. conn' \in [Shell -> Connection] /\ shows' \in [Shell -> 0 .. MaxCalls]
    BY <2>3, <2>4, <2>5 DEF DmoshInv, TypeOK
  <2>7. HealthyMeansVouched'
    <3>1. ASSUME NEW t \in Shell, conn'[t] = "connected"
          PROVE  shows'[t] \in read' /\ Vouched(calls'[shows'[t]], t)
      BY <2>4, <2>5, <3>1 DEF DmoshInv, TypeOK, ProbeInv, HealthyMeansVouched
    <3>2. \A m \in Command : code'[m] = "0" => \E j \in read' : Vouched(calls'[j], m)
      BY <2>4 DEF DmoshInv, ProbeInv, HealthyMeansVouched
    <3> QED BY <3>1, <3>2 DEF HealthyMeansVouched
  <2>8. CallIds' = CallIds
    BY <2>4 DEF CallIds
  <2>9. ShellMoves
    BY <2>4, <2>6, <2>7, <2>8 DEF DmoshInv, TypeOK, ShellMoves
  <2> QED BY <2>1, <2>9, MovesKeepInv
<1> QED
  BY <1>1, <1>2, <1>3, <1>4

\* A step of a health check keeps the invariant.
LEMMA CommandStepInv ==
  ASSUME DmoshInv, NEW m \in Command, Check(m) \/ \E k \in CallIds : Report(m, k)
  PROVE  DmoshInv'
<1>1. CASE Check(m)
  <2>1. Progress /\ DaemonMoves
    BY <1>1, ProbeProgresses DEF Check
  <2>2. /\ UNCHANGED <<screen, conn, shows, read>>
        /\ code' = [code EXCEPT ![m] = "running"]
    BY <1>1 DEF Check
  <2>3. code' \in [Command -> {"unborn", "running", "0", "1"}]
    BY <2>2 DEF DmoshInv, TypeOK
  <2>4. \A n \in Command : code'[n] = "0" => code[n] = "0"
    BY <2>2 DEF DmoshInv, TypeOK
  <2>5. /\ screen' \in [Shell -> {"unopened", "open", "left"}]
        /\ conn' \in [Shell -> Connection]
        /\ shows' \in [Shell -> 0 .. MaxCalls]
        /\ read' \subseteq CallIds'
    BY <2>1, <2>2, ProgressKeeps DEF DmoshInv, TypeOK
  <2>6. ShellMoves
    BY <2>1, <2>2, <2>3, <2>4, <2>5, LearntStays DEF ShellMoves
  <2> QED BY <2>1, <2>6, MovesKeepInv
<1>2. ASSUME NEW k \in CallIds, Report(m, k)
      PROVE  DmoshInv'
  <2>1. Progress /\ DaemonMoves
    BY <1>2, StutterProgresses, DaemonStandsStill DEF Report, daemonVars
  <2>2. calls[k].told = "done" => Vouched(calls[k], m)
    BY <1>2, ProbeTold DEF Report
  <2>3. /\ UNCHANGED <<calls, screen, conn, shows>>
        /\ read' = read \cup {k}
        /\ read' = read \cup {k}
        /\ code' = [code EXCEPT ![m] = IF calls[k].told = "done" THEN "0" ELSE "1"]
        /\ calls[k].from = m
    BY <1>2 DEF Report, daemonVars
  <2>4. CallIds' = CallIds
    BY <2>3 DEF CallIds
  <2>5. /\ screen' \in [Shell -> {"unopened", "open", "left"}]
        /\ conn' \in [Shell -> Connection]
        /\ shows' \in [Shell -> 0 .. MaxCalls]
        /\ read' \subseteq CallIds'
        /\ code' \in [Command -> {"unborn", "running", "0", "1"}]
    BY <2>3, <2>4 DEF DmoshInv, TypeOK
  <2>6. \A s \in Shell :
            conn'[s] = "connected" => shows'[s] \in read' /\ Vouched(calls'[shows'[s]], s)
    BY <2>3 DEF DmoshInv, ProbeInv, HealthyMeansVouched
  <2>7. ASSUME NEW n \in Command, code'[n] = "0"
        PROVE  \E j \in read' : Vouched(calls'[j], n)
    <3>1. CASE n = m
      <4>1. calls[k].told = "done"
        BY <2>3, <2>7, <3>1 DEF DmoshInv, TypeOK
      <4> QED BY <2>2, <2>3, <3>1, <4>1
    <3>2. CASE n # m
      <4>1. code[n] = "0"
        BY <2>3, <2>7, <3>2 DEF DmoshInv, TypeOK
      <4> QED BY <2>3, <4>1 DEF DmoshInv, ProbeInv, HealthyMeansVouched
    <3> QED BY <3>1, <3>2
  <2>8. ShellMoves
    BY <2>5, <2>6, <2>7 DEF ShellMoves, HealthyMeansVouched
  <2> QED BY <2>1, <2>8, MovesKeepInv
<1> QED
  BY <1>1, <1>2

\* A client's new call keeps the invariant.
LEMMA ClientStepInv ==
  ASSUME DmoshInv, NEW c \in Client, Ask(c)
  PROVE  DmoshInv'
<1>1. PICK r \in Requests : Dial(c, r)
  BY DEF Ask
<1>2. c \in Caller /\ r \in Request
  BY DmoshAssumption
<1>3. Progress
  BY <1>1, <1>2, DialProgresses
<1>4. DaemonMoves
  BY <1>1, DaemonStandsStill DEF Dial
<1>5. ShellMoves
  BY <1>3, ShellsStandStill DEF Ask
<1> QED
  BY <1>3, <1>4, <1>5, MovesKeepInv

\* Every step keeps the invariant.
LEMMA NextInv ==
  ASSUME DmoshInv, [Next]_vars
  PROVE  DmoshInv'
<1>1. CASE DaemonNext /\ UNCHANGED shellVars
  <2>1. Progress
    BY <1>1, DaemonProgresses
  <2>2. DaemonMoves
    BY <1>1, DaemonStaysTyped DEF DmoshInv, TypeOK
  <2> QED BY <1>1, <2>1, <2>2, ShellsStandStill, MovesKeepInv
<1>2. CASE UNCHANGED vars
  <2>1. Progress /\ DaemonMoves
    BY <1>2, StutterProgresses, DaemonStandsStill DEF vars, daemonVars
  <2>2. UNCHANGED shellVars
    BY <1>2 DEF vars
  <2> QED BY <2>1, <2>2, ShellsStandStill, MovesKeepInv
<1> QED
  BY <1>1, <1>2, ShellStepInv, CommandStepInv, ClientStepInv DEF Next

-----------------------------------------------------------------------------
(* The theorems.                                                           *)

LEMMA InvHolds == Spec => []DmoshInv
<1>1. Init => DmoshInv
  BY InitInv
<1>2. DmoshInv /\ [Next]_vars => DmoshInv'
  BY NextInv
<1> QED
  BY <1>1, <1>2, PTL DEF Spec

\* The variables of the daemon, the calls on it, the shells and the commands
\* have their types, for any number of callers, calls and starts.
THEOREM TypeCorrect == Spec => []TypeOK
<1>1. DmoshInv => TypeOK
  BY DEF DmoshInv
<1> QED
  BY <1>1, InvHolds, PTL

\* No caller is told that a change was made that was not, or refused one that
\* was made, by a dmostd, whatever broke between its handlers and the caller.
THEOREM AnswersTrue == Spec => []AnswersAreTrue
<1>1. DmoshInv => AnswersAreTrue
  BY DEF DmoshInv, TruthInv, CallOK, Truthful, AnswersAreTrue
<1> QED
  BY <1>1, InvHolds, PTL

\* A shell's "connected" and a health check's exit status of 0 stand for a probe of
\* its own that was answered as health, by a serving dmostd or by a program that
\* spoke its words: for any number of them, whatever broke, died or was answered
\* in their place, and in whatever order the results came back.
THEOREM HealthVouched == Spec => []HealthyMeansVouched
<1>1. DmoshInv => HealthyMeansVouched
  BY DEF DmoshInv, ProbeInv
<1> QED
  BY <1>1, InvHolds, PTL

\* A daemon whose exit status is 0 has cut no handler off.
THEOREM CleanExit == Spec => CleanExitAnswersAll
<1> DEFINE Clean == exit # "0" /\ exit' = "0" =>
                       \A k \in CallIds : InFlight(calls[k]) => calls'[k].stage # "cut"
<1>1. [Next]_vars => [Clean]_vars
  <2> SUFFICES ASSUME Next, exit # "0", exit' = "0"
               PROVE  \A k \in CallIds : ~InFlight(calls[k])
    OBVIOUS
  <2>1. DaemonNext
    BY DEF Next, Open, Reload, Quit, Update, Check, Report, Ask, Probe, Dial, daemonVars
  <2>2. Process
    BY <2>1 DEF DaemonNext, Occupy, Vacate, Serving, Accept, Handle, Respond, Network, Receive,
                Break, Cancel, AnswerForeign
  <2>3. Drained
    BY <2>2 DEF Process, Start, Serve, Deafen, Close, GiveUp, Kill, Terminate, ExitStatus
  <2> QED
    BY <2>3 DEF Drained
<1> QED
  BY <1>1, PTL DEF Spec, CleanExitAnswersAll
=============================================================================
