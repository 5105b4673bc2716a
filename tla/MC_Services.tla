------------------------------ MODULE MC_Services ------------------------------
(* Five parts that share no state: the api's ingest barrier, price table and   *)
(* migration runner, the proxy's streams and its error reporter.  One of them  *)
(* moves, from the initial state of the others, so that the states of a run    *)
(* are the sum of theirs.                                                      *)
EXTENDS IngestBarrier, PriceTable, Migrations, Forwarding, StatusReporter
CONSTANTS i1, i2, i3, r1, r2

\* Directories of an older and a newer deploy, and one with edited files.
MC_Directories == {<<"a">>, <<"a", "b">>, <<"z", "y">>}

\* An event stream that counts as it goes, one whose last event has it all, a body
\* that parses as a whole, calls that are billed without it, and an error.
No == Absent
MC_Answer(sse, metered, perRequest, events) ==
    [sse |-> sse, metered |-> metered, perRequest |-> perRequest,
     events |-> [i \in DOMAIN events |-> [in |-> events[i][1], out |-> events[i][2]]]]
MC_Answers == {
    MC_Answer(TRUE, TRUE, FALSE, << <<2, 1>>, <<No, No>>, <<No, 3>> >>),
    MC_Answer(TRUE, TRUE, FALSE, << <<No, No>>, <<2, 3>> >>),
    MC_Answer(FALSE, TRUE, FALSE, << <<No, No>>, <<2, 3>> >>),
    MC_Answer(FALSE, TRUE, TRUE, << <<No, No>> >>),
    MC_Answer(FALSE, FALSE, FALSE, << <<2, 3>> >>) }

EmptyDatabase == MigrationsInit /\ ~tracking

\* The states in which the other parts wait: one each.
Waiting(part) ==
    /\ part # "barrier"  => Init
    /\ part # "prices"   => PricesInit
    /\ part # "migrate"  => EmptyDatabase
    /\ part # "forward"  => ForwardInit
    /\ part # "reporter" => ReporterInit

ServicesInit == Init /\ PricesInit /\ MigrationsInit /\ ForwardInit /\ ReporterInit

ServicesNext ==
    \/ /\ Waiting("barrier") /\ Next
       /\ UNCHANGED <<priceVars, migrationVars, forwardVars, reporterVars>>
    \/ /\ Waiting("prices") /\ PricesNext
       /\ UNCHANGED <<vars, migrationVars, forwardVars, reporterVars>>
    \/ /\ Waiting("migrate") /\ MigrationsNext
       /\ UNCHANGED <<vars, priceVars, forwardVars, reporterVars>>
    \/ /\ Waiting("forward") /\ ForwardNext
       /\ UNCHANGED <<vars, priceVars, migrationVars, reporterVars>>
    \/ /\ Waiting("reporter") /\ ReporterNext
       /\ UNCHANGED <<vars, priceVars, migrationVars, forwardVars>>

ServicesSpec ==
    /\ ServicesInit
    /\ [][ServicesNext]_<<vars, priceVars, migrationVars, forwardVars, reporterVars>>
    /\ Fairness

\* The types of the five (one type invariant for one run).
ServicesTypesOK ==
    TypeOK /\ PricesTypeOK /\ MigrationsTypeOK /\ ForwardTypeOK /\ ReporterTypeOK
===============================================================================
