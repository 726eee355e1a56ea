----------------------------- MODULE MCSubagent -----------------------------
(***************************************************************************)
(* Small instances of Subagent for TLC.                                    *)
(***************************************************************************)
EXTENDS SubagentProperties, TLC

\* Threads, ids and e-mails are interchangeable.
IdSymmetry ==
    Permutations(Requests) \cup Permutations(Customers)
        \cup Permutations(Addresses) \cup Permutations(Emails)
=============================================================================
