------------------------------ MODULE RunLedger ------------------------------
(***************************************************************************)
(* What a workflow run promises to whoever reads its record: each node has *)
(* a growing list of rounds of which only the last can be open; a round    *)
(* closes once; a node whose round died never starts another; a run that   *)
(* is closing starts nothing; and it ends only when no round is open.      *)
(***************************************************************************)
EXTENDS Naturals, Sequences

CONSTANT Nodes

VARIABLES
  closing,  \* no further round will start
  ended,    \* the run has returned
  entries   \* node -> its rounds: "open", "succeeded", "failed" (may be retried) or "dead"

ledgerVars == <<closing, ended, entries>>

LastOf(s) == IF s = <<>> THEN "none" ELSE s[Len(s)]

LedgerInit ==
  /\ closing = FALSE
  /\ ended = FALSE
  /\ entries = [n \in Nodes |-> <<>>]

\* A round is opened, or is refused by a guard, which closes the run.
Open(n) ==
  /\ ~closing /\ ~ended
  /\ LastOf(entries[n]) \in {"none", "succeeded", "failed"}
  /\ \/ /\ entries' = [entries EXCEPT ![n] = Append(@, "open")]
        /\ UNCHANGED closing
     \/ /\ entries' = [entries EXCEPT ![n] = Append(@, "dead")]
        /\ closing' = TRUE
  /\ UNCHANGED ended

\* The open round of n gets its outcome; a fatal one may close the run.
Settle(n) ==
  /\ ~ended
  /\ LastOf(entries[n]) = "open"
  /\ \E outcome \in {"succeeded", "failed", "dead"} :
        /\ entries' = [entries EXCEPT ![n][Len(entries[n])] = outcome]
        /\ closing' \in {closing, closing \/ outcome = "dead"}
  /\ UNCHANGED ended

\* A failure that could have been retried turns out to be final.
Bury(n) ==
  /\ ~ended
  /\ LastOf(entries[n]) = "failed"
  /\ entries' = [entries EXCEPT ![n][Len(entries[n])] = "dead"]
  /\ closing' = TRUE
  /\ UNCHANGED ended

CloseRun ==
  /\ ~ended
  /\ closing' = TRUE
  /\ UNCHANGED <<ended, entries>>

End ==
  /\ closing
  /\ \A n \in Nodes : LastOf(entries[n]) # "open"
  /\ ended' = TRUE
  /\ UNCHANGED <<closing, entries>>

LedgerNext ==
  \/ \E n \in Nodes : Open(n) \/ Settle(n) \/ Bury(n)
  \/ CloseRun
  \/ End

LedgerSpec == LedgerInit /\ [][LedgerNext]_ledgerVars
=============================================================================
