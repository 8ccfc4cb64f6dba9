---------------------------- MODULE AtomicStore ------------------------------
(***************************************************************************)
(* What a store of runs promises, with nothing of how: a call happens at   *)
(* once.  It adds its mark to one document, which keeps all that it had,   *)
(* or finds that the run has none and changes nothing; it is answered in   *)
(* that instant or never, and happens at most once.  Documents go away     *)
(* only with the process, and never from Firestore.                        *)
(***************************************************************************)
EXTENDS Integers

VARIABLES docs, issued, answered

Place == {"process", "firestore"}

Init ==
    /\ docs = [p \in Place |-> [r \in {} |-> {}]]
    /\ issued = 0
    /\ answered = {}

Issue == issued' = issued + 1 /\ UNCHANGED <<docs, answered>>

\* In no document yet, and not answered.
Pending(mark) ==
    /\ \A p \in Place : \A r \in DOMAIN docs[p] : mark \notin docs[p][r]
    /\ \A a \in answered : a.mark # mark

Answer(p, run, mark, known) ==
    answered' = answered \cup
       {[run |-> run, mark |-> mark, known |-> known, durable |-> p = "firestore"]}

\* A run's id is the mark of the call that starts it.
Before(p, run) == IF run \in DOMAIN docs[p] THEN docs[p][run] ELSE {}

Apply(p, run, mark) ==
    /\ Pending(mark) /\ (run \in DOMAIN docs[p] \/ run = mark)
    /\ docs' = [docs EXCEPT ![p] = [r \in DOMAIN docs[p] \cup {run} |->
                   IF r = run THEN Before(p, run) \cup {mark} ELSE docs[p][r]]]
    /\ Answer(p, run, mark, TRUE) \/ UNCHANGED answered
    /\ UNCHANGED issued

Ignore(p, run, mark) ==
    /\ Pending(mark) /\ run \notin DOMAIN docs[p]
    /\ Answer(p, run, mark, FALSE)
    /\ UNCHANGED <<docs, issued>>

Lose ==
    /\ docs' = [docs EXCEPT !.process = [r \in {} |-> {}]]
    /\ UNCHANGED <<issued, answered>>

Next ==
    \/ Issue \/ Lose
    \/ \E p \in Place, run, mark \in 1 .. issued :
          Apply(p, run, mark) \/ Ignore(p, run, mark)

Spec == Init /\ [][Next]_<<docs, issued, answered>>
==============================================================================
