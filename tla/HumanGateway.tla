---------------------------- MODULE HumanGateway ----------------------------
(***************************************************************************)
(* The gateway of `workflow run` to the person at the terminal             *)
(* (cmd/workflow/human_gateway.go).  Each RequestRound starts a goroutine  *)
(* that reads stdin line by line through one bufio.Reader without a lock;  *)
(* a request that is canceled returns and leaves its goroutine reading.    *)
(* The person answers what was asked last, one line at a time.  A prompt   *)
(* that cannot be written ends the goroutine with an error.                *)
(***************************************************************************)
EXTENDS Integers, Sequences, FiniteSets, SequencesExt

CONSTANTS
  Requests, \* calls of RequestRound
  Asks,     \* Asks[r]: the kinds of round it may be about; one human-input is all there is
  Typing,   \* Typing[kind]: the lines a person may type in answer, by what the gateway
            \* tells apart: nothing ("blank"), only white space ("spaces"), a word it knows,
            \* "r" with the advise x in the same line ("rx"), other text
  MaxLines  \* bound, by kind: lines that are typed to answer one request

Kinds == {"input", "approval", "advise-retry"}

Lines == {"blank", "spaces", "a", "r", "rx", "x", "c", "f"}

ASSUME GatewayAssumption ==
  /\ Asks \in [Requests -> SUBSET Kinds]
  /\ Typing \in [Kinds -> SUBSET Lines]
  /\ MaxLines \in [Kinds -> Nat]

VARIABLES
  request, \* request[r]: "none", "open", "answered", "canceled" or "failed"
  asked,   \* asked[r]: its RoundRequest.Kind
  ctxDone, \* the requests whose context is done
  reader,  \* reader[r]: its goroutine: "none", a stage of the dialog, "done" or "failed"
  taken,   \* taken[r]: the content lines its goroutine has read
  answer,  \* answer[r]: the response its goroutine has made, or Nothing
  typed,   \* the line that was typed and not read yet: {} or {[to, text]}
  said,    \* said[r]: what was typed to answer r
  closed,  \* stdin is at its end
  shared   \* two goroutines have been reading at the same time

gatewayVars == <<request, asked, ctxDone, reader, taken, answer, typed, said, closed, shared>>

Nothing == [kind |-> "nothing"]

FirstStage(kind) ==
  CASE kind = "input" -> "lines" [] kind = "approval" -> "choice" [] kind = "advise-retry" -> "advice"

Stages == {"lines", "decision", "choice", "advise", "advice"}
Reading == {r \in Requests : reader[r] \in Stages}

GatewayInit ==
  /\ request = [r \in Requests |-> "none"] /\ asked = request /\ ctxDone = {}
  /\ reader = [r \in Requests |-> "none"]
  /\ taken = [r \in Requests |-> <<>>] /\ answer = [r \in Requests |-> Nothing]
  /\ typed = {} /\ said = [r \in Requests |-> <<>>]
  /\ closed = FALSE /\ shared = FALSE

-----------------------------------------------------------------------------
(* The responses of a dialog.                                              *)

Approved == [kind |-> "approved"]
Trimmed(text) == IF text = "spaces" THEN "blank" ELSE text
Rejected(advise) == [kind |-> "rejected", advise |-> Trimmed(advise)]
Input(content, finished) == [kind |-> "input", content |-> content, finished |-> finished]
Advice(text) == [kind |-> "advice", advise |-> Trimmed(text), skip |-> Trimmed(text) = "blank"]

\* One line read by the goroutine of r: on with the dialog, or a response.
On(stage) == [stage |-> stage, answer |-> Nothing]
Ends(response) == [stage |-> "done", answer |-> response]

\* Seeded fault: a rejection never asks for its advise.
ApprovalWithoutAdvise(stage, text) ==
  IF stage = "choice" /\ text = "r" THEN Ends(Rejected("blank")) ELSE
  IF Trimmed(text) \in {"blank", "a"} THEN Ends(Approved) ELSE
  IF text = "rx" THEN Ends(Rejected("x")) ELSE On("choice")

Approval(stage, text) ==
  CASE stage = "advise"               -> Ends(Rejected(text))
    [] stage = "choice" /\ Trimmed(text) \in {"blank", "a"} -> Ends(Approved)
    [] stage = "choice" /\ text = "rx"  -> Ends(Rejected("x"))
    [] stage = "choice" /\ text = "r"   -> On("advise")
    [] OTHER                            -> On("choice")

InputRound(stage, text, content) ==
  CASE stage = "lines"                        -> On(IF text = "blank" THEN "decision" ELSE "lines")
    [] stage = "decision" /\ text = "c"       -> Ends(Input(content, FALSE))
    [] stage = "decision" /\ Trimmed(text) \in {"blank", "f"} -> Ends(Input(content, TRUE))
    [] OTHER                                  -> On("decision")

Heard(r, text) ==
  CASE asked[r] = "input"        -> InputRound(reader[r], text, taken[r])
    [] asked[r] = "approval"     -> Approval(reader[r], text)
    [] asked[r] = "advise-retry" -> Ends(Advice(text))

-----------------------------------------------------------------------------
\* A goroutine that is to prompt reads at the stage, or could not write.
Prompted(stage) == {stage, "failed"}

RequestRound(r) ==
  /\ request[r] = "none"
  /\ request' = [request EXCEPT ![r] = "open"]
  /\ \E kind \in Asks[r] : \E stage \in Prompted(FirstStage(kind)) :
       /\ asked' = [asked EXCEPT ![r] = kind]
       /\ reader' = [reader EXCEPT ![r] = stage]
       /\ shared' = (shared \/ (stage # "failed" /\ Reading # {}))
  /\ UNCHANGED <<ctxDone, taken, answer, typed, said, closed>>

\* The person types when something is asked and the last line was read; once
\* two prompts have shared the terminal, at most one line each (a bound).
Types(r) ==
  /\ request[r] = "open" /\ r \in Reading
  /\ typed = {} /\ ~closed /\ Len(said[r]) < MaxLines[asked[r]]
  /\ shared => said[r] = <<>>
  /\ \E text \in Typing[asked[r]] :
       /\ typed' = {[to |-> r, text |-> text]}
       /\ said' = [said EXCEPT ![r] = Append(@, text)]
  /\ UNCHANGED <<request, asked, ctxDone, reader, taken, answer, closed, shared>>

Closes ==
  /\ ~closed /\ closed' = TRUE
  /\ UNCHANGED <<request, asked, ctxDone, reader, taken, answer, typed, said, shared>>

\* Two goroutines inside one bufio.Reader: either gets the line, whole, or as
\* the other bytes that the race over the buffer leaves there.
Torn == {"blank", "x"}
MayGet(line) == IF Cardinality(Reading) = 1 THEN {line.text} ELSE {line.text} \cup Torn

readLine(r) ==
  /\ r \in Reading
  /\ \E line \in typed : \E text \in MayGet(line) :
       LET step == Heard(r, text)
           next == IF step.stage \in {"choice", "advise", "decision"} THEN Prompted(step.stage)
                   ELSE {step.stage}
       IN
       /\ \E stage \in next : reader' = [reader EXCEPT ![r] = stage]
       /\ answer' = [answer EXCEPT ![r] = step.answer]
       /\ taken' = [taken EXCEPT ![r] = IF step.stage = "done" THEN <<>>
                                                  ELSE IF reader[r] = "lines" /\ text # "blank" THEN Append(@, text)
                                                  ELSE @]
       /\ typed' = {}
  /\ UNCHANGED <<request, asked, ctxDone, said, closed, shared>>

ReadFails(r) ==
  /\ r \in Reading /\ closed /\ typed = {}
  /\ reader' = [reader EXCEPT ![r] = "failed"]
  /\ UNCHANGED <<request, asked, ctxDone, taken, answer, typed, said, closed, shared>>

CancelRequest(r) ==
  /\ request[r] = "open" /\ r \notin ctxDone
  /\ ctxDone' = ctxDone \cup {r}
  /\ UNCHANGED <<request, asked, reader, taken, answer, typed, said, closed, shared>>

\* Seeded fault: RequestRound waits for the goroutine only.
OutcomesOfReader(r) ==
  CASE reader[r] = "done" -> {"answered"} [] reader[r] = "failed" -> {"failed"} [] OTHER -> {}

\* The select: what is ready of the context and the result, either when both are.
Outcomes(r) ==
  (IF r \in ctxDone THEN {"canceled"} ELSE {})
    \cup (CASE reader[r] = "done" -> {"answered"} [] reader[r] = "failed" -> {"failed"} [] OTHER -> {})

RequestReturns(r) ==
  /\ request[r] = "open"
  /\ \E how \in Outcomes(r) : request' = [request EXCEPT ![r] = how]
  /\ UNCHANGED <<asked, ctxDone, reader, taken, answer, typed, said, closed, shared>>

GatewayNext ==
  \/ \E r \in Requests : \/ RequestRound(r) \/ Types(r) \/ readLine(r) \/ ReadFails(r)
                         \/ CancelRequest(r) \/ RequestReturns(r)
  \/ Closes

GatewaySpec == GatewayInit /\ [][GatewayNext]_gatewayVars

\* The goroutines and the select go on; nobody has to type.
GatewayFairness ==
  WF_gatewayVars(\E r \in Requests : readLine(r) \/ ReadFails(r) \/ RequestReturns(r))

-----------------------------------------------------------------------------
(* Properties.                                                             *)

\* What a person means who types these lines one after the other.
ApprovalMeant(lines) ==
  LET choice == SelectInSeq(lines, LAMBDA l : l \in {"blank", "spaces", "a", "r", "rx"}) IN
  CASE lines[choice] \in {"blank", "spaces", "a"} -> Approved
    [] lines[choice] = "rx" -> Rejected("x")
    [] lines[choice] = "r"  -> Rejected(Last(lines))

InputMeant(lines) ==
  LET blank == SelectInSeq(lines, LAMBDA l : l = "blank") IN
  Input(SubSeq(lines, 1, blank - 1), Last(lines) # "c")

Meant(kind, lines) ==
  CASE kind = "input"        -> InputMeant(lines)
    [] kind = "approval"     -> ApprovalMeant(lines)
    [] kind = "advise-retry" -> Advice(lines[1])

\* As long as no two prompts read at the same time, a request is answered by
\* what was typed for it: no rejection is taken for an approval, no advise is
\* lost, no line of one round is left over for the next.
LonePromptsAreAnsweredAsMeant ==
  ~shared => \A r \in Requests : request[r] = "answered" => answer[r] = Meant(asked[r], said[r])

\* A request whose context is done returns although nobody types any more;
\* and so does every open request once stdin is at its end.
Hopeless == {r \in Requests : request[r] = "open" /\ (r \in ctxDone \/ closed)}
CanceledRequestReturns == (Hopeless # {}) ~> (Hopeless = {})

=============================================================================
