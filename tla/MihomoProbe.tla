----------------------------- MODULE MihomoProbe -----------------------------
(***************************************************************************)
(* One proxy check with the Mihomo engine: core/mihomo_probe.py.           *)
(*                                                                         *)
(* The nodes are checked in batches.  A batch finds the nodes whose          *)
(* configuration the engine rejects by bisection, starts one engine with the *)
(* others and asks it about each.  Anything that is not a definite answer    *)
(* ends the whole check without a result.                                    *)
(***************************************************************************)
EXTENDS Integers, Sequences, SequencesExt

CONSTANTS
    Count,      \* nodes of the check
    BatchSize,
    Attempts    \* starts of an engine before a batch gives up

ProbeAssumption == Count \in Nat \ {0} /\ BatchSize \in Nat \ {0} /\ Attempts \in Nat

VARIABLES
    rejected,   \* nodes whose configuration the engine cannot load
    stage,      \* what the check does
    rest,       \* nodes of later batches
    chunks,     \* parts of the batch that still have to be validated, a stack
    valid,      \* nodes of the batch that passed
    attempt,    \* starts so far
    asked,      \* valid nodes with an answer
    results,    \* the verdicts, <<>> before the first
    engine,     \* the engine process: none, test, running
    work        \* the batch has a private directory

vars == <<rejected, stage, rest, chunks, valid, attempt, asked, results, engine, work>>
batch == <<chunks, valid, attempt, asked>>

Nodes == 1..Count
Verdicts == {"unsupported", "success", "failure"}
Stages == {"next", "isolate", "start", "ask", "close", "fail", "done", "failed", "killed"}

TypeOK ==
    /\ rejected \subseteq Nodes /\ stage \in Stages
    /\ \A n \in DOMAIN results : n \in Nodes /\ results[n] \in Verdicts
    /\ attempt \in 0..Attempts /\ engine \in {"none", "test", "running"} /\ work \in BOOLEAN

Init ==
    /\ rejected \in SUBSET Nodes
    /\ stage = "next" /\ rest = [n \in Nodes |-> n]
    /\ chunks = <<>> /\ valid = <<>> /\ attempt = 0 /\ asked = 0
    /\ results = <<>> /\ engine = "none" /\ work = FALSE

Shorter(a, b) == IF a < b THEN a ELSE b
With(nodes, verdict) == [n \in DOMAIN results \cup nodes |->
                            IF n \in nodes THEN verdict ELSE results[n]]

\* run and the start of run_batch
NextBatch ==
    /\ stage = "next" /\ rest # <<>>
    /\ LET size == Shorter(BatchSize, Len(rest))
       IN  /\ chunks' = <<SubSeq(rest, 1, size)>>
           /\ rest' = SubSeq(rest, size + 1, Len(rest))
    /\ valid' = <<>> /\ attempt' = 0 /\ asked' = 0
    /\ stage' = "isolate" /\ work' = TRUE
    /\ UNCHANGED <<rejected, results, engine>>
Return ==
    /\ stage = "next" /\ rest = <<>>
    /\ stage' = "done"
    /\ UNCHANGED <<rejected, rest, batch, results, engine, work>>

\* validate: a test process, which is gone before its verdict counts.
Loads(nodes) == ToSet(nodes) \cap rejected = {}
Validate ==
    /\ engine = "none"
    /\ \/ stage = "isolate" /\ chunks # <<>>
       \/ stage = "start" /\ attempt < Attempts
    /\ engine' = "test"
    /\ UNCHANGED <<rejected, stage, rest, batch, results, work>>

HalvesOff(chunk) == LET middle == Len(chunk) \div 2
                    IN  <<SubSeq(chunk, 1, middle), SubSeq(chunk, middle + 2, Len(chunk))>>
Halves(chunk) == LET middle == Len(chunk) \div 2
                 IN  <<SubSeq(chunk, 1, middle), SubSeq(chunk, middle + 1, Len(chunk))>>

\* isolate: exit status 0 or 1 of the test of the first part
Isolate ==
    /\ stage = "isolate" /\ engine = "test" /\ engine' = "none"
    /\ LET chunk == Head(chunks)
       IN  \/ /\ Loads(chunk)
              /\ valid' = valid \o chunk /\ chunks' = Tail(chunks)
              /\ UNCHANGED results
           \/ /\ ~Loads(chunk) /\ Len(chunk) = 1
              /\ results' = With(ToSet(chunk), "unsupported") /\ chunks' = Tail(chunks)
              /\ UNCHANGED valid
           \/ /\ ~Loads(chunk) /\ Len(chunk) > 1
              /\ chunks' = Halves(chunk) \o Tail(chunks)
              /\ UNCHANGED <<valid, results>>
    /\ UNCHANGED <<rejected, stage, rest, attempt, asked, work>>

Isolated ==
    /\ stage = "isolate" /\ chunks = <<>> /\ engine = "none"
    /\ stage' = IF valid = <<>> THEN "close" ELSE "start"
    /\ UNCHANGED <<rejected, rest, batch, results, engine, work>>

\* Another port, another validation, another engine, until one is ready: a
\* process that is not is stopped before the next, and the check fails when it
\* cannot be.
Start ==
    /\ stage = "start" /\ engine = "test"
    /\ \/ engine' = "running" /\ stage' \in {"ask", "fail"}
       \/ /\ engine' = "none"
          /\ stage' = IF attempt + 1 = Attempts THEN "fail" ELSE stage
    /\ attempt' = attempt + 1
    /\ UNCHANGED <<rejected, rest, chunks, valid, asked, results, work>>

\* probe_one, in the order the results are collected; the controller was asked
\* again when it gave no delay.
Ask ==
    /\ stage = "ask" /\ asked < Len(valid)
    /\ asked' = asked + 1
    /\ \E verdict \in {"success", "failure"} : results' = With({valid[asked']}, verdict)
    /\ UNCHANGED <<rejected, stage, rest, chunks, valid, attempt, engine, work>>
Answered ==
    /\ stage = "ask" /\ asked = Len(valid)
    /\ stage' = "close"
    /\ UNCHANGED <<rejected, rest, batch, results, engine, work>>

\* A process or controller does not answer as it should, or a deadline is over:
\* no node is judged by it.
Raise ==
    /\ stage \in {"isolate", "start", "ask"}
    /\ stage' = "fail"
    /\ UNCHANGED <<rejected, rest, batch, results, engine, work>>

\* The finally clauses of validate and run_batch: the directory is removed whether
\* or not the process could be stopped, and a batch whose cleanup fails in either
\* has no result.
Close ==
    /\ stage \in {"close", "fail"}
    /\ \E stopped, removed \in BOOLEAN :
         /\ engine = "none" => stopped
         /\ engine' = IF stopped THEN "none" ELSE engine
         /\ work' = ~removed
         /\ stage' = IF stage = "close" /\ stopped /\ removed THEN "next" ELSE "failed"
    /\ UNCHANGED <<rejected, rest, batch, results>>

\* The engine has a session of its own and survives the checker.
Kill ==
    /\ stage \notin {"done", "failed", "killed"}
    /\ stage' = "killed"
    /\ UNCHANGED <<rejected, rest, batch, results, engine, work>>

Next ==
    \/ NextBatch \/ Return \/ Validate \/ Isolate \/ Isolated
    \/ Start \/ Ask \/ Answered \/ Raise \/ Close \/ Kill

Spec == Init /\ [][Next]_vars

-----------------------------------------------------------------------------

\* A check that returns has one verdict for every node, and calls exactly those
\* unsupported whose own configuration is rejected: no node is lost by a split
\* or blamed for its neighbours.
EveryNodeJudged ==
    stage = "done" => /\ DOMAIN results = Nodes
                      /\ \A n \in Nodes : (results[n] = "unsupported") = (n \in rejected)

\* A node is asked of the engine that was started for its batch and of no other:
\* a test or an engine starts when none is running, and what could not be stopped
\* or removed after a batch ends the check, so that no later batch works beside it.
OneEngine ==
    /\ engine = "running" => stage \in {"ask", "close", "fail", "failed", "killed"}
    /\ stage = "ask" => engine = "running"
    /\ stage \in {"next", "done"} => engine = "none" /\ ~work

=============================================================================
