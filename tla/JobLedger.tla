------------------------------ MODULE JobLedger ------------------------------
(***************************************************************************)
(* What the job queue promises, without transactions, files or processes:  *)
(* a ledger of jobs that only grows; a job is submitted only while no      *)
(* other job of its kind is waiting or running; one job runs at a time;    *)
(* every start counts as an attempt; a job that has ended stays as it is.  *)
(***************************************************************************)
EXTENDS Naturals, Sequences

CONSTANT JobKind

VARIABLE ledger  \* the jobs in order of submission: [kind, phase, attempts]

Phase == {"queued", "running", "succeeded", "failed"}
Ended == {"succeeded", "failed"}

Fresh(kind) == [kind |-> kind, phase |-> "queued", attempts |-> 0]

Open(l, kind) == \E i \in DOMAIN l : l[i].kind = kind /\ l[i].phase \notin Ended

LedgerInit == ledger = <<Fresh("transcribe")>>

\* One job of a kind of which none is open joins ledger l.
Joined(l, kind) == Append(l, Fresh(kind))

Submit == \E kind \in JobKind :
             ~Open(ledger, kind) /\ ledger' = Joined(ledger, kind)

\* A speaker edit submits two.
SubmitTwo == \E one, two \in JobKind :
                /\ ~Open(ledger, one)
                /\ ~Open(Joined(ledger, one), two)
                /\ ledger' = Joined(Joined(ledger, one), two)

Take == /\ \A i \in DOMAIN ledger : ledger[i].phase # "running"
        /\ \E i \in DOMAIN ledger :
              /\ ledger[i].phase = "queued"
              /\ ledger' = [ledger EXCEPT ![i].phase = "running", ![i].attempts = @ + 1]

PutBack == \E i \in DOMAIN ledger :
              /\ ledger[i].phase = "running"
              /\ ledger' = [ledger EXCEPT ![i].phase = "queued"]

\* A job ends; recovery may submit its follow-up in the same step.
End == \E i \in DOMAIN ledger, phase \in Ended :
          LET ended == [ledger EXCEPT ![i].phase = phase]
          IN  /\ ledger[i].phase = "running"
              /\ \/ ledger' = ended
                 \/ \E kind \in JobKind :
                       ~Open(ended, kind) /\ ledger' = Joined(ended, kind)

LedgerNext == Submit \/ SubmitTwo \/ Take \/ PutBack \/ End

LedgerSpec == LedgerInit /\ [][LedgerNext]_ledger
=============================================================================
